---- MODULE Spec2Model ----
(***************************************************************************)
(* A model of espikey: the write-ahead log (src/src/log.rs), the write     *)
(* batch (src/src/write_batch.rs) and the memtable and DB write path       *)
(* (src/src/lib.rs).                                                       *)
(*                                                                         *)
(* Byte strings (Vec<u8>, &[u8], the log file) are kept run-length         *)
(* encoded: a byte string is a sequence of runs <<b, n>> (byte b repeated  *)
(* n >= 1 times) in which neighbouring runs carry different bytes.  The    *)
(* encoding is canonical, so two byte strings are equal exactly when their *)
(* encodings are equal, and a 32768-byte block costs one run, which lets   *)
(* the log be checked with the block size of the source.                   *)
(***************************************************************************)
EXTENDS Integers, Sequences, FiniteSets, TLC

VARIABLES
    mem_table,     \* DB.mem_table: MemTable {total_bytes, entry_count, items}
    sequence,      \* DB.sequence
    wb,            \* DB.wb: WriteBatch.rep
    file,          \* the bytes of the log file (espikey.wal)
    block_offset,  \* log::Writer.block_offset
    reader,        \* log::Reader {pos, buffer, buffer_offset, buffer_length, eof}
    lock,          \* EspikeyServer.storage: the RwLock around the DB
    builder,       \* BlockBuilder {buf, restarts, last_key, counter, block_restart_interval}
    block_iter,    \* BlockIterator {block, restart_offset, num_restarts, current, ...}
    pc,            \* where the running call stands
    call,          \* the running call's arguments and locals
    result,        \* what the last call returned
    hist           \* history of the run (what was asked, appended, returned)

vars ==
    <<mem_table, sequence, wb, file, block_offset, reader, lock, builder, block_iter,
      pc, call, result, hist>>

\* RwLock::new: no writer (0) and no readers hold it
RwLock_new ==
    [writer |-> 0, readers |-> {}]

\* no block builder or block iterator exists
NoBlock ==
    <<>>

(***************************************************************************)
(* Byte strings                                                            *)
(***************************************************************************)

\* vec![b; n]
Rep(b, n) ==
    IF n = 0 THEN <<>> ELSE << <<b, n>> >>

\* a.extend_from_slice(b)
Cat(a, b) ==
    IF a = <<>> THEN b
    ELSE IF b = <<>> THEN a
    ELSE IF a[Len(a)][1] = b[1][1]
         THEN SubSeq(a, 1, Len(a) - 1)
              \o << <<b[1][1], a[Len(a)][2] + b[1][2]>> >>
              \o Tail(b)
         ELSE a \o b

RECURSIVE BLen(_)
\* a.len()
BLen(a) ==
    IF a = <<>> THEN 0 ELSE a[1][2] + BLen(Tail(a))

RECURSIVE Take(_, _)
\* &a[..k], for k <= a.len()
Take(a, k) ==
    IF k = 0 \/ a = <<>> THEN <<>>
    ELSE IF a[1][2] >= k THEN << <<a[1][1], k>> >>
    ELSE <<a[1]>> \o Take(Tail(a), k - a[1][2])

RECURSIVE Drop(_, _)
\* &a[k..], for k <= a.len()
Drop(a, k) ==
    IF k = 0 \/ a = <<>> THEN a
    ELSE IF a[1][2] > k THEN << <<a[1][1], a[1][2] - k>> >> \o Tail(a)
    ELSE Drop(Tail(a), k - a[1][2])

\* &a[from..to], for from <= to <= a.len()
Slice(a, from, to) ==
    Take(Drop(a, from), to - from)

\* a[i], for i < a.len()
At(a, i) ==
    Drop(a, i)[1][1]

RECURSIVE FromList(_)
\* the byte string of a literal list of bytes
FromList(s) ==
    IF s = <<>> THEN <<>> ELSE Cat(Rep(s[1], 1), FromList(Tail(s)))

(***************************************************************************)
(* Fixed-width and varint codecs (src/src/lib.rs)                          *)
(***************************************************************************)

\* value.to_le_bytes() of a u32
Fixed32Bytes(value) ==
    FromList(<<value % 256, (value \div 256) % 256,
               (value \div 65536) % 256, (value \div 16777216) % 256>>)

\* value.to_le_bytes() of a u64 (values of the model stay below 2^31)
Fixed64Bytes(value) ==
    Cat(Fixed32Bytes(value), Rep(0, 4))

\* decode_fixed32: asserts data.len() >= 4
decode_fixed32(data) ==
    IF BLen(data) < 4 THEN [panic |-> TRUE, value |-> 0]
    ELSE [panic |-> FALSE,
          value |-> At(data, 0) + 256 * At(data, 1) + 65536 * At(data, 2)
                    + 16777216 * At(data, 3)]

\* decode_fixed64: asserts data.len() >= 8
decode_fixed64(data) ==
    IF BLen(data) < 8 THEN [panic |-> TRUE, value |-> 0]
    ELSE [panic |-> FALSE,
          value |-> At(data, 0) + 256 * At(data, 1) + 65536 * At(data, 2)
                    + 16777216 * At(data, 3)]

\* A u32 of 2^31 or more is held as that value minus 2^32, the same 32 bits
\* read as a signed number, since the integers of TLC end at 2^31 - 1.

\* a shift that moves a whole byte out
U32_shr8(value) ==
    IF value < 0 THEN (value \div 256) + 16777216 ELSE value \div 256

\* value >> 7 of a u32
U32_shr7(value) ==
    IF value < 0 THEN (value \div 128) + 33554432 ELSE value \div 128

RECURSIVE put_varint32_bytes(_)
\* the bytes put_varint32 pushes for value
put_varint32_bytes(value) ==
    IF U32_shr7(value) # 0
    THEN Cat(Rep((value % 128) + 128, 1), put_varint32_bytes(U32_shr7(value)))
    ELSE Rep(value % 128, 1)

\* put_varint32: pushes the bytes, returns their number
put_varint32(buf, value) ==
    [buf |-> Cat(buf, put_varint32_bytes(value)),
     cnt |-> BLen(put_varint32_bytes(value))]

RECURSIVE Pow2(_)
Pow2(n) ==
    IF n = 0 THEN 1 ELSE 2 * Pow2(n - 1)

\* (x as u32) << shift, for the seven bits of a byte and the shifts the loop
\* of decode_varint32 makes: at shift 28 only the low four bits stay below
\* bit 32, and bit 31 is the sign of the 32-bit pattern
U32_shl ==
    [x \in 0..127, shift \in {0, 7, 14, 21, 28} |->
        IF shift < 28 THEN x * Pow2(shift)
        ELSE ((x % 16) - (IF x % 16 >= 8 THEN 16 ELSE 0)) * 268435456]

RECURSIVE decode_varint32_loop(_, _, _, _)
\* the loop of decode_varint32: buf[offset] panics past the end of buf, and
\* << shift overflows (a panic with overflow checks on) once shift reaches 35
decode_varint32_loop(buf, value, shift, offset) ==
    IF offset >= BLen(buf) \/ shift >= 32
    THEN [panic |-> TRUE, value |-> 0, offset |-> offset]
    ELSE LET byte == At(buf, offset)
             v    == value + U32_shl[byte % 128, shift]
         IN  IF byte >= 128
             THEN decode_varint32_loop(buf, v, shift + 7, offset + 1)
             ELSE [panic |-> FALSE, value |-> v, offset |-> offset + 1]

decode_varint32(buf) ==
    decode_varint32_loop(buf, 0, 0, 0)

\* a length prefix of one byte: data.len() as u8
put_length_prefixed_slice_u8(buf, data) ==
    Cat(Cat(buf, Rep(BLen(data) % 256, 1)), data)

\* put_length_prefixed_slice
put_length_prefixed_slice(buf, data) ==
    Cat(put_varint32(buf, BLen(data)).buf, data)

\* decode_length_prefixed_slice: asserts offset + length <= data.len()
decode_length_prefixed_slice(data) ==
    LET d == decode_varint32(data)
    IN  IF d.panic \/ d.offset + d.value > BLen(data)
        THEN [panic |-> TRUE, value |-> <<>>, offset |-> 0]
        ELSE [panic |-> FALSE,
              value |-> Slice(data, d.offset, d.offset + d.value),
              offset |-> d.offset + d.value]

(***************************************************************************)
(* MemTable (src/src/lib.rs)                                               *)
(***************************************************************************)

\* ValueItem::Deletion and ValueItem::Value(v)
Deletion == [tag |-> "Deletion", v |-> <<>>]

Value(v) == [tag |-> "Value", v |-> v]

\* MemTable::default()
MemTable_default ==
    [total_bytes |-> 0, entry_count |-> 0, items |-> <<>>]

\* HashMap insert of key -> item
MapPut(items, key, item) ==
    [k \in (DOMAIN items) \cup {key} |-> IF k = key THEN item ELSE items[k]]

\* MemTable::get: Some(value) only for a key holding a Value
MemTable_get(m, key) ==
    IF key \in DOMAIN m.items /\ m.items[key].tag = "Value"
    THEN [some |-> TRUE, v |-> m.items[key].v]
    ELSE [some |-> FALSE, v |-> <<>>]

\* a set that counts an overwritten key again
MemTable_set_counts_overwrite(m, key, value) ==
    [total_bytes |-> IF key \in DOMAIN m.items
                     THEN m.total_bytes
                          - (IF m.items[key].tag = "Value"
                             THEN BLen(m.items[key].v) ELSE 0)
                          + BLen(value)
                     ELSE m.total_bytes + BLen(key) + BLen(value),
     entry_count |-> m.entry_count + 1,
     items       |-> MapPut(m.items, key, Value(value))]

\* MemTable::set
MemTable_set(m, key, value) ==
    IF key \in DOMAIN m.items
    THEN [total_bytes |-> m.total_bytes
                          - (IF m.items[key].tag = "Value"
                             THEN BLen(m.items[key].v) ELSE 0)
                          + BLen(value),
          entry_count |-> m.entry_count,
          items       |-> MapPut(m.items, key, Value(value))]
    ELSE [total_bytes |-> m.total_bytes + BLen(key) + BLen(value),
          entry_count |-> m.entry_count + 1,
          items       |-> MapPut(m.items, key, Value(value))]

\* a delete that does not take the bytes of the value it removes off
\* total_bytes
MemTable_delete_keeps_bytes(m, key) ==
    IF key \in DOMAIN m.items
    THEN [total_bytes |-> m.total_bytes,
          entry_count |-> m.entry_count,
          items       |-> MapPut(m.items, key, Deletion)]
    ELSE [total_bytes |-> m.total_bytes + BLen(key),
          entry_count |-> m.entry_count + 1,
          items       |-> MapPut(m.items, key, Deletion)]

\* a delete that leaves a stored value in place
MemTable_delete_keeps_value(m, key) ==
    IF key \in DOMAIN m.items
    THEN m
    ELSE [total_bytes |-> m.total_bytes + BLen(key),
          entry_count |-> m.entry_count + 1,
          items       |-> MapPut(m.items, key, Deletion)]

\* MemTable::delete
MemTable_delete(m, key) ==
    IF key \in DOMAIN m.items
    THEN [total_bytes |-> m.total_bytes
                          - (IF m.items[key].tag = "Value"
                             THEN BLen(m.items[key].v) ELSE 0),
          entry_count |-> m.entry_count,
          items       |-> MapPut(m.items, key, Deletion)]
    ELSE [total_bytes |-> m.total_bytes + BLen(key),
          entry_count |-> m.entry_count + 1,
          items       |-> MapPut(m.items, key, Deletion)]

RECURSIVE Vec_cmp(_, _)
\* k1.cmp(k2) of two Vec<u8>: byte by byte as unsigned values, a proper prefix
\* before the longer string
Vec_cmp(k1, k2) ==
    IF k1 = <<>> THEN (IF k2 = <<>> THEN "Equal" ELSE "Less")
    ELSE IF k2 = <<>> THEN "Greater"
    ELSE IF k1[1][1] # k2[1][1]
         THEN (IF k1[1][1] < k2[1][1] THEN "Less" ELSE "Greater")
         ELSE LET n == IF k1[1][2] < k2[1][2] THEN k1[1][2] ELSE k2[1][2]
              IN  Vec_cmp(Drop(k1, n), Drop(k2, n))

\* a comparison that takes the shorter key first
Vec_cmp_by_length(k1, k2) ==
    IF BLen(k1) # BLen(k2)
    THEN (IF BLen(k1) < BLen(k2) THEN "Less" ELSE "Greater")
    ELSE Vec_cmp(k1, k2)

\* |(k1, _), (k2, _)| k1.cmp(k2)
iter_cmp(k1, k2) ==
    Vec_cmp(k1, k2)

RECURSIVE sorted_insert(_, _)
\* entry e put into a sorted sequence, after the entries not greater than it
sorted_insert(sorted, e) ==
    IF sorted = <<>> THEN <<e>>
    ELSE IF iter_cmp(sorted[1][1], e[1]) = "Greater" THEN <<e>> \o sorted
    ELSE <<sorted[1]>> \o sorted_insert(Tail(sorted), e)

RECURSIVE sorted_by(_)
\* Itertools::sorted_by: a stable sort of the entries
sorted_by(entries) ==
    IF entries = <<>> THEN <<>>
    ELSE sorted_insert(sorted_by(SubSeq(entries, 1, Len(entries) - 1)),
                       entries[Len(entries)])

\* MemTable::iter: the entries <<key, item>> of the map, which the HashMap
\* hands over in the order of its keys in order, sorted by key
MemTable_iter(m, order) ==
    sorted_by([i \in 1..Len(order) |-> <<order[i], m.items[order[i]]>>])

(***************************************************************************)
(* WriteBatch (src/src/write_batch.rs)                                     *)
(***************************************************************************)

WRITE_BATCH_HEADER_SIZE == 12

\* WriteBatch::new, and the rep that clear() leaves
WriteBatch_new ==
    Rep(0, WRITE_BATCH_HEADER_SIZE)

\* a clear that leaves the staged ops in place
WriteBatch_clear_keeps_ops(rep) ==
    rep

\* WriteBatch::clear: rep.clear(), rep.resize(WRITE_BATCH_HEADER_SIZE, 0)
WriteBatch_clear(rep) ==
    WriteBatch_new

\* set_sequence: encode_fixed64 over rep[0..8]
WriteBatch_set_sequence(rep, s) ==
    Cat(Fixed64Bytes(s), Drop(rep, 8))

\* set_count: encode_fixed32 over rep[8..12]
WriteBatch_set_count(rep, count) ==
    Cat(Cat(Take(rep, 8), Fixed32Bytes(count)), Drop(rep, WRITE_BATCH_HEADER_SIZE))

WriteBatch_get_sequence(rep) ==
    decode_fixed64(Slice(rep, 0, 8)).value

WriteBatch_get_count(rep) ==
    decode_fixed32(Slice(rep, 8, WRITE_BATCH_HEADER_SIZE)).value

\* a put that writes the value before the key
WriteBatch_put_value_first(rep, key, value) ==
    LET counted == WriteBatch_set_count(rep, WriteBatch_get_count(rep) + 1)
        tagged  == Cat(counted, Rep(1, 1))
    IN  put_length_prefixed_slice(put_length_prefixed_slice(tagged, value), key)

\* WriteBatch::put
WriteBatch_put(rep, key, value) ==
    LET counted == WriteBatch_set_count(rep, WriteBatch_get_count(rep) + 1)
        tagged  == Cat(counted, Rep(1, 1))
    IN  put_length_prefixed_slice(put_length_prefixed_slice(tagged, key), value)

\* a delete that does not count itself
WriteBatch_delete_uncounted(rep, key) ==
    put_length_prefixed_slice(Cat(rep, Rep(0, 1)), key)

\* WriteBatch::delete
WriteBatch_delete(rep, key) ==
    LET counted == WriteBatch_set_count(rep, WriteBatch_get_count(rep) + 1)
        tagged  == Cat(counted, Rep(0, 1))
    IN  put_length_prefixed_slice(tagged, key)

\* WriteBatch::from: Corruption below 12 bytes, the bytes as they are otherwise
WriteBatch_from(bytes) ==
    IF BLen(bytes) < WRITE_BATCH_HEADER_SIZE
    THEN [status |-> "Corruption", rep |-> <<>>]
    ELSE [status |-> "Ok", rep |-> bytes]

\* WriteBatchIter::next at offset: None, Some(Ok(op)), Some(Err(Corruption)),
\* or a panic of one of the decoders
WriteBatchIter_next(rep, offset) ==
    IF offset >= BLen(rep)
    THEN [kind |-> "None", key |-> <<>>, value |-> <<>>, offset |-> offset]
    ELSE LET tag == At(rep, offset)
             k   == decode_length_prefixed_slice(Drop(rep, offset + 1))
             v   == decode_length_prefixed_slice(Drop(rep, offset + 1 + k.offset))
         IN  IF tag > 1
             THEN [kind |-> "Corruption", key |-> <<>>, value |-> <<>>,
                   offset |-> offset + 1]
             ELSE IF k.panic
             THEN [kind |-> "Panic", key |-> <<>>, value |-> <<>>,
                   offset |-> offset + 1]
             ELSE IF tag = 0
             THEN [kind |-> "Deletion", key |-> k.value, value |-> <<>>,
                   offset |-> offset + 1 + k.offset]
             ELSE IF v.panic
             THEN [kind |-> "Panic", key |-> <<>>, value |-> <<>>,
                   offset |-> offset + 1 + k.offset]
             ELSE [kind |-> "Value", key |-> k.value, value |-> v.value,
                   offset |-> offset + 1 + k.offset + v.offset]

RECURSIVE apply_to_loop(_, _, _)
\* the for loop of apply_to: each op is applied before the next is decoded
apply_to_loop(rep, offset, m) ==
    LET n == WriteBatchIter_next(rep, offset)
    IN  CASE n.kind = "None"       -> [status |-> "Ok", mem_table |-> m]
          [] n.kind = "Corruption" -> [status |-> "Corruption", mem_table |-> m]
          [] n.kind = "Panic"      -> [status |-> "Panic", mem_table |-> m]
          [] n.kind = "Value"      ->
                apply_to_loop(rep, n.offset, MemTable_set(m, n.key, n.value))
          [] n.kind = "Deletion"   ->
                apply_to_loop(rep, n.offset, MemTable_delete(m, n.key))

\* WriteBatch::apply_to (WriteBatchIter::new asserts rep.len() >= 12)
WriteBatch_apply_to(rep, m) ==
    IF BLen(rep) < WRITE_BATCH_HEADER_SIZE
    THEN [status |-> "Panic", mem_table |-> m]
    ELSE apply_to_loop(rep, WRITE_BATCH_HEADER_SIZE, m)

RECURSIVE iter_loop(_, _, _)
\* next() called until it answers None or an error, the ops it answered
\* before that in items
iter_loop(rep, offset, items) ==
    LET n == WriteBatchIter_next(rep, offset)
    IN  CASE n.kind = "None" -> [status |-> "Ok", items |-> items]
          [] n.kind \in {"Corruption", "Panic"} -> [status |-> n.kind, items |-> items]
          [] OTHER ->
                iter_loop(rep, n.offset,
                          Append(items, [kind |-> n.kind, key |-> n.key, value |-> n.value]))

\* WriteBatch::iter (WriteBatchIter::new asserts rep.len() >= 12), followed to
\* its end
WriteBatch_iter(rep) ==
    IF BLen(rep) < WRITE_BATCH_HEADER_SIZE
    THEN [status |-> "Panic", items |-> <<>>]
    ELSE iter_loop(rep, WRITE_BATCH_HEADER_SIZE, <<>>)

(***************************************************************************)
(* Log writer (src/src/log.rs)                                             *)
(***************************************************************************)

BLOCK_SIZE == 32768

HEADER_SIZE == 7

\* RecordType as u8
Zero == 0

Full == 1

First == 2

Middle == 3

Last == 4

RECURSIVE crc_fold(_, _)
crc_fold(message, h) ==
    IF message = <<>> THEN h
    ELSE crc_fold(Tail(message),
                  (h * 31 + message[1][1] * 7 + (message[1][2] % 8191) + 1) % 65521)

\* crc32fast::hash(message), a function of the external crate: the model keeps
\* a digest of the bytes in its place (the reader never looks at it)
crc32fast_hash(message) ==
    crc_fold(message, 17)

\* WalHeader as repr(C) without packed: a byte of padding after record_type
WalHeader_bytes_unpacked(checksum, length, record_type) ==
    Cat(Cat(Fixed32Bytes(checksum),
            FromList(<<length % 256, (length \div 256) % 256>>)),
        Cat(Rep(record_type, 1), Rep(0, 1)))

\* WalHeader {checksum: u32, length: u16, record_type: u8}.as_bytes(),
\* repr(C, packed), on a little-endian target
WalHeader_bytes(checksum, length, record_type) ==
    Cat(Cat(Fixed32Bytes(checksum),
            FromList(<<length % 256, (length \div 256) % 256>>)),
        Rep(record_type, 1))

\* No write fails.
NoFault == [frag |-> 0, stage |-> "none", torn |-> 0]

\* file.write_all(buf) under fault plan: written whole, or, when this is the
\* write the plan fails, only its first torn bytes
write_all(f, buf, fails, torn) ==
    IF fails
    THEN Cat(f, Take(buf, IF torn < BLen(buf) THEN torn ELSE BLen(buf)))
    ELSE Cat(f, buf)

\* block_offset advanced by the payload only
block_offset_after_message(bo, length) ==
    bo + length

\* self.block_offset += HEADER_SIZE + message.len()
block_offset_after(bo, length) ==
    bo + HEADER_SIZE + length

\* Writer::write: both asserts, the header, the payload, flush (File::flush
\* does nothing and cannot fail), then block_offset += HEADER_SIZE + length
Writer_write(f, bo, record_type, message, fault, n) ==
    LET length == BLen(message)
        header == WalHeader_bytes(crc32fast_hash(message), length, record_type)
        failH  == fault.frag = n /\ fault.stage = "header"
        failM  == fault.frag = n /\ fault.stage = "message"
        f1     == write_all(f, header, failH, fault.torn)
        f2     == write_all(f1, message, failM, fault.torn)
    IN  IF length > 65535 \/ bo + HEADER_SIZE + length > BLOCK_SIZE
        THEN [status |-> "Panic", file |-> f, block_offset |-> bo]
        ELSE IF failH
        THEN [status |-> "IOError", file |-> f1, block_offset |-> bo]
        ELSE IF failM
        THEN [status |-> "IOError", file |-> f2, block_offset |-> bo]
        ELSE [status |-> "Ok", file |-> f2,
              block_offset |-> block_offset_after(bo, length)]

\* the match of Writer::append with every fragment typed Full
fragment_type_always_full(begin, end) ==
    Full

\* the match of Writer::append with every later fragment typed Last
fragment_type_never_middle(begin, end) ==
    IF begin THEN (IF end THEN Full ELSE First) ELSE Last

\* (begin, end) => RecordType
fragment_type(begin, end) ==
    IF begin THEN (IF end THEN Full ELSE First)
             ELSE (IF end THEN Last ELSE Middle)

\* the test for a tail too small for a header, passing a tail of exactly
\* HEADER_SIZE bytes too
space_up_to_header(space) ==
    space <= HEADER_SIZE

\* space < HEADER_SIZE
space_below_header(space) ==
    space < HEADER_SIZE

\* what a turn of the loop of Writer::append hands back: the outcome of its
\* write, and the fragments written so far
Appended(w, written) ==
    [status |-> w.status, file |-> w.file, block_offset |-> w.block_offset,
     written |-> written]

RECURSIVE append_loop(_, _, _, _, _, _, _, _, _)
\* one turn of the do-while of Writer::append, the n-th; written lists the
\* fragments of the turns before: the zero bytes written ahead of each, the
\* position of its header in the file, its type and length, and block_offset
\* after its write
append_loop(f, bo, message, offset, remains, begin, fault, n, written) ==
    LET space     == BLOCK_SIZE - bo
        failP     == fault.frag = n /\ fault.stage = "pad"
        pads      == space_below_header(space) /\ space > 0
        f1        == IF pads THEN write_all(f, Rep(0, space), failP, fault.torn)
                     ELSE f
        bo1       == IF space_below_header(space) THEN 0 ELSE bo
        available == BLOCK_SIZE - bo1 - HEADER_SIZE
        fragment_length == IF available < remains THEN available ELSE remains
        end       == fragment_length = remains
        w         == Writer_write(f1, bo1, fragment_type(begin, end),
                                  Slice(message, offset, offset + fragment_length),
                                  fault, n)
        entry     == [pad |-> IF pads THEN space ELSE 0, at |-> BLen(f1),
                      record_type |-> fragment_type(begin, end),
                      length |-> fragment_length, block_offset |-> w.block_offset]
    IN  IF pads /\ failP
        THEN Appended([status |-> "IOError", file |-> f1, block_offset |-> bo], written)
        ELSE IF w.status # "Ok"
        THEN Appended(w, written)
        ELSE IF remains - fragment_length > 0
        THEN append_loop(w.file, w.block_offset, message, offset + fragment_length,
                         remains - fragment_length, FALSE, fault, n + 1,
                         Append(written, entry))
        ELSE Appended(w, Append(written, entry))

\* Writer::append
Writer_append(f, bo, message, fault) ==
    append_loop(f, bo, message, 0, BLen(message), TRUE, fault, 1, <<>>)

(***************************************************************************)
(* Log reader (src/src/log.rs)                                             *)
(***************************************************************************)

\* Reader::new: a zeroed buffer of one block, nothing read (pos is the read
\* position of the open file)
Reader_new ==
    [pos |-> 0, buffer |-> Rep(0, BLOCK_SIZE), buffer_offset |-> 0,
     buffer_length |-> 0, eof |-> FALSE]

\* The outcome of the next file.read(&mut buffer) of a plan: "ok" (a read of a
\* regular file: as many bytes as are left, up to the buffer's length),
\* "interrupted" (ErrorKind::Interrupted) or "error"; "ok" once the plan is used up
NextIo(plan) ==
    IF plan = <<>> THEN "ok" ELSE Head(plan)

RestIo(plan) ==
    IF plan = <<>> THEN plan ELSE Tail(plan)

\* what read_physical hands back, with the end of the file reported as
\* Corruption
Physical_eof_is_corruption(kind, rd, plan, record_type, message) ==
    [kind |-> IF kind = "Eof" THEN "Corruption" ELSE kind, rd |-> rd, plan |-> plan,
     record_type |-> record_type, message |-> message]

\* what read_physical hands back, with the reader as it leaves it
Physical(kind, rd, plan, record_type, message) ==
    [kind |-> kind, rd |-> rd, plan |-> plan, record_type |-> record_type,
     message |-> message]

\* the header test of read_physical, without the bound on the fragment length
fragment_fits_unchecked(length, rd) ==
    TRUE

\* length + HEADER_SIZE <= buffer_length - buffer_offset
fragment_fits(length, rd) ==
    length + HEADER_SIZE <= rd.buffer_length - rd.buffer_offset

\* the refill test of read_physical, passing any buffer that is not empty
needs_refill_when_empty(rd) ==
    rd.buffer_length - rd.buffer_offset < 1

\* buffer_length - buffer_offset < HEADER_SIZE
needs_refill(rd) ==
    rd.buffer_length - rd.buffer_offset < HEADER_SIZE

RECURSIVE read_physical(_, _, _)
\* Reader::read_physical: kind is "Frag" (Ok(Some)), "Eof" (Ok(None)),
\* "Corruption", "IOError", or "Panic" for a subtraction that underflows or a
\* slice that leaves the buffer
read_physical(rd, f, plan) ==
    IF rd.buffer_offset > rd.buffer_length
    THEN Physical("Panic", rd, plan, Zero, <<>>)
    ELSE IF needs_refill(rd)
    THEN IF rd.eof
         THEN Physical("Eof", rd, plan, Zero, <<>>)
         ELSE LET rd0    == [rd EXCEPT !.buffer_offset = 0]
                  left   == BLen(f) - rd.pos
                  nreads == IF left < BLOCK_SIZE THEN left ELSE BLOCK_SIZE
                  rd1    == [rd0 EXCEPT
                                !.pos = rd.pos + nreads,
                                !.buffer = Cat(Slice(f, rd.pos, rd.pos + nreads),
                                               Drop(rd.buffer, nreads)),
                                !.buffer_length = nreads,
                                !.eof = (nreads < BLOCK_SIZE)]
              IN  CASE NextIo(plan) = "interrupted" ->
                          read_physical(rd0, f, RestIo(plan))
                    [] NextIo(plan) = "error" ->
                          Physical("IOError", rd0, RestIo(plan), Zero, <<>>)
                    [] OTHER ->
                          read_physical(rd1, f, RestIo(plan))
    ELSE IF rd.buffer_offset + HEADER_SIZE > BLOCK_SIZE
    THEN Physical("Panic", rd, plan, Zero, <<>>)
    ELSE LET length == At(rd.buffer, rd.buffer_offset + 4)
                       + 256 * At(rd.buffer, rd.buffer_offset + 5)
             record_type   == At(rd.buffer, rd.buffer_offset + 6)
             reset         == [rd EXCEPT !.buffer_offset = 0, !.buffer_length = 0]
             record_offset == rd.buffer_offset + HEADER_SIZE
             advanced      == [rd EXCEPT
                                 !.buffer_offset = rd.buffer_offset + HEADER_SIZE + length]
         IN  IF ~fragment_fits(length, rd)
             THEN Physical(IF rd.eof THEN "Eof" ELSE "Corruption", reset, plan, Zero, <<>>)
             ELSE IF record_type = Zero /\ length = 0
             THEN Physical("Corruption", reset, plan, Zero, <<>>)
             ELSE IF record_type \notin {Full, First, Middle, Last}
             THEN Physical("Corruption", advanced, plan, record_type, <<>>)
             ELSE IF record_offset + length > BLOCK_SIZE
             THEN Physical("Panic", advanced, plan, record_type, <<>>)
             ELSE Physical("Frag", advanced, plan, record_type,
                           Slice(rd.buffer, record_offset, record_offset + length))

\* what Reader::read returns, with the reader and the plan as the last
\* read_physical p leaves them: status "Some" (Ok(Some(value))), "None"
\* (Ok(None)), "Corruption", "IOError" or "Panic"
Returned(status, value, p) ==
    [status |-> status, value |-> value, rd |-> p.rd, plan |-> p.plan]

RECURSIVE read_loop(_, _, _, _, _)
\* the loop of Reader::read
read_loop(rd, f, plan, in_fragmented_record, fragment) ==
    LET p == read_physical(rd, f, plan)
    IN  CASE p.kind = "Eof" -> Returned("None", <<>>, p)
          [] p.kind \in {"Corruption", "IOError", "Panic"} ->
                Returned(p.kind, <<>>, p)
          [] p.kind = "Frag" /\ p.record_type = Full ->
                IF in_fragmented_record
                THEN Returned("Corruption", <<>>, p)
                ELSE Returned("Some", p.message, p)
          [] p.kind = "Frag" /\ p.record_type = First ->
                IF in_fragmented_record
                THEN Returned("Corruption", <<>>, p)
                ELSE read_loop(p.rd, f, p.plan, TRUE, Cat(fragment, p.message))
          [] p.kind = "Frag" /\ p.record_type = Middle ->
                IF ~in_fragmented_record
                THEN Returned("Corruption", <<>>, p)
                ELSE read_loop(p.rd, f, p.plan, TRUE, Cat(fragment, p.message))
          [] p.kind = "Frag" /\ p.record_type = Last ->
                IF ~in_fragmented_record
                THEN Returned("Corruption", <<>>, p)
                ELSE Returned("Some", Cat(fragment, p.message), p)

\* Reader::read with in_fragmented_record starting as true
Reader_read_resumed(rd, f, plan) ==
    read_loop(rd, f, plan, TRUE, <<>>)

\* Reader::read
Reader_read(rd, f, plan) ==
    read_loop(rd, f, plan, FALSE, <<>>)

RECURSIVE read_all(_, _, _)
\* the payloads a fresh reader returns from f up to its first answer that is
\* not Ok(Some), at most n of them
read_all(rd, f, n) ==
    LET r == Reader_read(rd, f, <<>>)
    IN  IF n = 0 \/ r.status # "Some" THEN <<>>
        ELSE <<r.value>> \o read_all(r.rd, f, n - 1)

(***************************************************************************)
(* DB (src/src/lib.rs): open, get, put, delete, write                      *)
(***************************************************************************)

\* Calls of put and delete in one run, write or sync failures in one run, and
\* crashes followed by DB::open in one run.
MaxCalls == 2

MaxFaults == 1

MaxOpens == 1

\* The keys and values callers pass: "k" and 128 times "a" (a length that takes
\* a two-byte varint); "v1" and 130 times "b".  "m" is only ever looked up.
Keys == {FromList(<<107>>), Rep(97, 128)}

Values == {FromList(<<118, 49>>), Rep(98, 130)}

GetKeys == Keys \cup {FromList(<<109>>)}

\* The ways a write of Writer::append fails at its first fragment: the header
\* write with nothing or three bytes written, the payload write with three.
AppendFaults ==
    {[frag |-> 1, stage |-> "header", torn |-> 0],
     [frag |-> 1, stage |-> "header", torn |-> 3],
     [frag |-> 1, stage |-> "message", torn |-> 3]}

\* a Result of the model: the status and, for get, the value
Res(status, value) ==
    [status |-> status, value |-> value]

\* DB::get
DB_get(m, key) ==
    IF MemTable_get(m, key).some
    THEN Res("Ok", MemTable_get(m, key).v)
    ELSE Res("NotFound", <<>>)

\* a write that stamps the batch with S instead of S + 1
write_stamp_unadvanced(rep, S) ==
    WriteBatch_set_sequence(rep, S)

\* DB::write, line 110: wb.set_sequence(last_sequence + 1)
write_stamp(rep, S) ==
    WriteBatch_set_sequence(rep, S + 1)

\* a write that applies the batch to the memtable before it is in the log
write_next_apply_first(step, ok, sync) ==
    CASE step = "stage"   -> "apply"
      [] step = "apply"   -> IF ok THEN "append" ELSE "return"
      [] step = "append"  -> IF ~ok THEN "return" ELSE IF sync THEN "sync" ELSE "publish"
      [] step = "sync"    -> IF ok THEN "publish" ELSE "return"
      [] step = "publish" -> "done"

\* a write that goes on after a failed append or sync
write_next_ignores_errors(step, ok, sync) ==
    CASE step = "stage"   -> "append"
      [] step = "append"  -> IF sync THEN "sync" ELSE "apply"
      [] step = "sync"    -> "apply"
      [] step = "apply"   -> IF ok THEN "publish" ELSE "return"
      [] step = "publish" -> "done"

\* DB::write, lines 112-120: the statement that follows step, which ended Ok or
\* not: append, then sync when asked, then apply_to, then the store to
\* self.sequence; each ? returns the error at once
write_next(step, ok, sync) ==
    CASE step = "stage"   -> "append"
      [] step = "append"  -> IF ~ok THEN "return" ELSE IF sync THEN "sync" ELSE "apply"
      [] step = "sync"    -> IF ok THEN "apply" ELSE "return"
      [] step = "apply"   -> IF ok THEN "publish" ELSE "return"
      [] step = "publish" -> "done"

\* where the call stands once its next statement is known
PcOf(next) ==
    IF next \in {"return", "done"} THEN "idle" ELSE next

\* the history of a DB just opened
FreshHist(opens, calls, faults, want, want_seq) ==
    [calls |-> calls, faults |-> faults, opens |-> opens, commits |-> 0,
     expect |-> <<>>, appended |-> <<>>, logged |-> <<>>, synced |-> <<>>,
     synced_seq |-> 0, torn |-> FALSE, want |-> want, want_seq |-> want_seq]

NoCall ==
    [op |-> "none", key |-> <<>>, item |-> Deletion, sync |-> FALSE,
     last_sequence |-> 0, mem0 |-> MemTable_default, seq0 |-> 0]

\* DB::open on an empty directory
InitDB ==
    /\ mem_table = MemTable_default
    /\ sequence = 0
    /\ wb = WriteBatch_new
    /\ file = <<>>
    /\ block_offset = 0
    /\ reader = Reader_new
    /\ lock = RwLock_new
    /\ builder = NoBlock
    /\ block_iter = NoBlock
    /\ pc = "idle"
    /\ call = NoCall
    /\ result = Res("Ok", <<>>)
    /\ hist = FreshHist(0, 0, 0, <<>>, 0)

\* the locals of a call of put or delete once write has reached line 111:
\* last_sequence = sequence + count
StagedCall(op, key, item, sync, rep) ==
    [op |-> op, key |-> key, item |-> item, sync |-> sync,
     last_sequence |-> sequence + WriteBatch_get_count(rep),
     mem0 |-> mem_table, seq0 |-> sequence]

\* DB::put(key, value, sync) up to line 111 of write: clear, stage the op,
\* stamp the batch
DB_put(key, value, sync) ==
    /\ pc = "idle"
    /\ hist.calls < MaxCalls
    /\ wb' = write_stamp(WriteBatch_put(WriteBatch_clear(wb), key, value), sequence)
    /\ call' = StagedCall("put", key, Value(value), sync, wb')
    /\ pc' = PcOf(write_next("stage", TRUE, sync))
    /\ result' = Res("Running", <<>>)
    /\ hist' = [hist EXCEPT !.calls = @ + 1, !.want = <<>>, !.want_seq = 0]
    /\ UNCHANGED <<lock, builder, block_iter, mem_table, sequence, file, block_offset, reader>>

\* DB::delete(key, sync) up to line 111 of write
DB_delete(key, sync) ==
    /\ pc = "idle"
    /\ hist.calls < MaxCalls
    /\ wb' = write_stamp(WriteBatch_delete(WriteBatch_clear(wb), key), sequence)
    /\ call' = StagedCall("delete", key, Deletion, sync, wb')
    /\ pc' = PcOf(write_next("stage", TRUE, sync))
    /\ result' = Res("Running", <<>>)
    /\ hist' = [hist EXCEPT !.calls = @ + 1, !.want = <<>>, !.want_seq = 0]
    /\ UNCHANGED <<lock, builder, block_iter, mem_table, sequence, file, block_offset, reader>>

\* line 112: self.log_writer.append(self.wb.get_contents())?
Write_append(fault) ==
    /\ pc = "append"
    /\ fault # NoFault => hist.faults < MaxFaults
    /\ LET w    == Writer_append(file, block_offset, wb, fault)
           next == write_next("append", w.status = "Ok", call.sync)
       IN  /\ (fault = NoFault) = (w.status = "Ok")
           /\ file' = w.file
           /\ block_offset' = w.block_offset
           /\ pc' = PcOf(next)
           /\ result' = IF next = "return" THEN Res(w.status, <<>>) ELSE result
           /\ hist' = IF w.status = "Ok"
                      THEN [hist EXCEPT !.appended = Append(@, wb),
                                        !.logged = MapPut(@, call.key, call.item)]
                      ELSE [hist EXCEPT !.faults = @ + 1, !.torn = TRUE]
    /\ UNCHANGED <<lock, builder, block_iter, mem_table, sequence, wb, reader, call>>

\* lines 114-116: self.log_writer.sync()?, which fails with an I/O error or not
Write_sync(ok) ==
    /\ pc = "sync"
    /\ ~ok => hist.faults < MaxFaults
    /\ LET next == write_next("sync", ok, call.sync)
       IN  /\ pc' = PcOf(next)
           /\ result' = IF next = "return" THEN Res("IOError", <<>>) ELSE result
    /\ hist' = IF ok
               THEN [hist EXCEPT !.synced = hist.logged,
                                 !.synced_seq = call.last_sequence]
               ELSE [hist EXCEPT !.faults = @ + 1]
    /\ UNCHANGED <<lock, builder, block_iter, mem_table, sequence, wb, file, block_offset, reader, call>>

\* line 117: self.wb.apply_to(&mut self.mem_table)?
Write_apply ==
    /\ pc = "apply"
    /\ LET a    == WriteBatch_apply_to(wb, mem_table)
           next == write_next("apply", a.status = "Ok", call.sync)
       IN  /\ mem_table' = a.mem_table
           /\ pc' = PcOf(next)
           /\ result' = IF next = "return" THEN Res(a.status, <<>>) ELSE result
    /\ UNCHANGED <<lock, builder, block_iter, sequence, wb, file, block_offset, reader, call, hist>>

\* lines 119-120: self.sequence = last_sequence; Ok(())
Write_publish ==
    /\ pc = "publish"
    /\ sequence' = call.last_sequence
    /\ pc' = PcOf(write_next("publish", TRUE, call.sync))
    /\ result' = Res("Ok", <<>>)
    /\ hist' = [hist EXCEPT !.commits = @ + 1,
                            !.expect = MapPut(@, call.key, call.item)]
    /\ UNCHANGED <<lock, builder, block_iter, mem_table, wb, file, block_offset, reader, call>>

\* DB::get(key), between calls of put and delete
DB_get_call(key) ==
    /\ pc = "idle"
    /\ result' = DB_get(mem_table, key)
    /\ call' = [NoCall EXCEPT !.op = "get", !.key = key]
    /\ UNCHANGED <<lock, builder, block_iter, mem_table, sequence, wb, file, block_offset, reader, pc, hist>>

\* what a crash leaves durable for certain: the keys whose last logged op was
\* in the log at the last sync that returned Ok
Durable(h) ==
    IF h.torn THEN <<>>
    ELSE [k \in {x \in DOMAIN h.synced : h.synced[x] = h.logged[x]} |-> h.synced[k]]

\* The process stops at any point and DB::open runs on the same directory:
\* File::create truncates espikey.wal, the memtable is empty, sequence is 0.
DB_open ==
    /\ hist.opens < MaxOpens
    /\ mem_table' = MemTable_default
    /\ sequence' = 0
    /\ wb' = WriteBatch_new
    /\ file' = <<>>
    /\ block_offset' = 0
    /\ pc' = "idle"
    /\ call' = [NoCall EXCEPT !.op = "open"]
    /\ result' = Res("Ok", <<>>)
    /\ hist' = FreshHist(hist.opens + 1, hist.calls, hist.faults,
                         Durable(hist), IF hist.torn THEN 0 ELSE hist.synced_seq)
    /\ UNCHANGED <<lock, builder, block_iter, reader>>

NextDB ==
    \/ \E key \in Keys, value \in Values, sync \in BOOLEAN : DB_put(key, value, sync)
    \/ \E key \in Keys, sync \in BOOLEAN : DB_delete(key, sync)
    \/ \E fault \in {NoFault} \cup AppendFaults : Write_append(fault)
    \/ \E ok \in BOOLEAN : Write_sync(ok)
    \/ Write_apply
    \/ Write_publish
    \/ \E key \in GetKeys : DB_get_call(key)
    \/ DB_open

Spec == InitDB /\ [][NextDB]_vars

(***************************************************************************)
(* Claims about the DB write path, checked under Spec                      *)
(***************************************************************************)

InWrite == pc \in {"append", "sync", "apply", "publish"}

\* what get must answer for a key whose last successful op is item
Answer(item) ==
    IF item.tag = "Value" THEN Res("Ok", item.v) ELSE Res("NotFound", <<>>)

\* the batch rep holds the op that leaves item under key as its first op
BatchHas(rep, key, item) ==
    LET n == WriteBatchIter_next(rep, WRITE_BATCH_HEADER_SIZE)
    IN  /\ n.kind = item.tag
        /\ n.key = key
        /\ item.tag = "Value" => n.value = item.v

\* the records a reader finds in the log file
LogRecords ==
    read_all(Reader_new, file, MaxCalls + 1)

\* C1: between calls, get(k) returns the value of the most recent successful
\* put(k, v) when the most recent successful op on k was a put, and NotFound
\* when it was a delete or k was never written; the answer a get call gave is
\* that one.
C1_GetReturnsLatest ==
    pc = "idle" =>
        /\ \A k \in GetKeys :
              DB_get(mem_table, k)
                = IF k \in DOMAIN hist.expect THEN Answer(hist.expect[k])
                  ELSE Res("NotFound", <<>>)
        /\ call.op = "get" =>
              result = IF call.key \in DOMAIN hist.expect
                       THEN Answer(hist.expect[call.key])
                       ELSE Res("NotFound", <<>>)

\* C1 witness: a get answered NotFound for a key that was put and then deleted.
C1_Witness ==
    /\ call.op = "get"
    /\ result.status = "NotFound"
    /\ hist.commits = 2
    /\ Len(hist.appended) = 2
    /\ \E v \in Values : BatchHas(hist.appended[1], call.key, Value(v))
    /\ BatchHas(hist.appended[2], call.key, Deletion)

\* C2: every value or tombstone in the memtable comes from a batch whose
\* record append had returned Ok before (and, while no write was torn, from a
\* record a reader finds in the log file); until append and the requested sync
\* are done the memtable is the one the call started with, and the sequence
\* counter does not move before the call's last step.
C2_LogBeforeMemtable ==
    /\ LET recs == IF hist.torn THEN <<>> ELSE LogRecords
       IN  \A k \in DOMAIN mem_table.items :
              /\ \E i \in 1..Len(hist.appended) :
                    BatchHas(hist.appended[i], k, mem_table.items[k])
              /\ ~hist.torn =>
                    \E i \in 1..Len(recs) : BatchHas(recs[i], k, mem_table.items[k])
    /\ pc \in {"append", "sync"} => mem_table = call.mem0
    /\ InWrite => sequence = call.seq0

\* C2 witness: the batch is applied and in the log file, the counter not yet moved.
C2_Witness ==
    /\ pc = "publish"
    /\ call.sync
    /\ call.key \in DOMAIN mem_table.items
    /\ mem_table # call.mem0
    /\ LET recs == LogRecords
       IN  recs # <<>> /\ recs[Len(recs)] = wb

\* C3: the step at which the log append or the sync fails ends the call with
\* an I/O error, the memtable and the sequence counter being those the call
\* started with.
C3_FailedCommitLeavesNoTrace ==
    [][(pc \in {"append", "sync"} /\ hist'.faults > hist.faults)
         => /\ pc' = "idle"
            /\ result'.status = "IOError"
            /\ mem_table' = call.mem0
            /\ sequence' = call.seq0]_vars

\* C3 witness: a put on a DB that already holds an entry has failed at sync.
C3_Witness ==
    /\ pc = "idle"
    /\ call.op = "put"
    /\ call.sync
    /\ result.status = "IOError"
    /\ ~hist.torn
    /\ hist.commits = 1
    /\ mem_table = call.mem0

\* C4 (as claimed): right after a crash and DB::open on the same directory,
\* every key whose last logged op was committed and synced reads as committed,
\* and the sequence counter is at least the one that commit published.
C4_RecoveryReplays ==
    call.op = "open" =>
        /\ \A k \in DOMAIN hist.want : DB_get(mem_table, k) = Answer(hist.want[k])
        /\ sequence >= hist.want_seq

\* C6: a commit in flight has stamped its batch with S + 1 and holds one op,
\* S being the counter the call found; a commit that returned Ok leaves the
\* counter at S + count; the counter equals the number of commits that returned
\* Ok since open, and no step but open lowers it.
C6_State ==
    /\ InWrite =>
          /\ WriteBatch_get_sequence(wb) = call.seq0 + 1
          /\ WriteBatch_get_count(wb) = 1
          /\ call.last_sequence = call.seq0 + 1
    /\ (pc = "idle" /\ call.op \in {"put", "delete"} /\ result.status = "Ok") =>
          sequence = call.seq0 + WriteBatch_get_count(wb)
    /\ \A i \in 1..Len(hist.appended) :
          WriteBatch_get_sequence(hist.appended[i]) <= hist.commits + 1
    /\ sequence = hist.commits

C6_SequenceCounts ==
    [](C6_State) /\ [][call'.op # "open" => sequence' >= sequence]_vars

\* C6 witness: the second commit since open has returned Ok.
C6_Witness ==
    /\ pc = "idle"
    /\ call.op \in {"put", "delete"}
    /\ result.status = "Ok"
    /\ sequence = 2
    /\ WriteBatch_get_sequence(wb) = 2

\* C7 (as claimed): no two records of the log file carry the same sequence number.
C7_NoSequenceReuse ==
    LET recs == LogRecords
    IN  \A i, j \in 1..Len(recs) :
            i # j => WriteBatch_get_sequence(recs[i]) # WriteBatch_get_sequence(recs[j])

(***************************************************************************)
(* A WriteBatch on its own: built by put, delete, set_sequence and clear   *)
(* or taken from bytes by WriteBatch::from, and applied to a memtable      *)
(***************************************************************************)

\* Ops staged in one batch, and calls of apply_to in one run.
MaxBatchOps == 2

MaxApplies == 1

\* The encoded ops and the damaged ones that bytes handed to WriteBatch::from
\* are made of: put("k", "v1"), delete("k"), the unknown tag 2, a put whose key
\* length (5) runs past the end, and a lone delete tag.
Pieces ==
    {FromList(<<1, 1, 107, 2, 118, 49>>), FromList(<<0, 1, 107>>), FromList(<<2>>),
     FromList(<<1, 5, 107>>), FromList(<<0>>)}

Bodies ==
    {<<>>} \cup Pieces \cup {Cat(a, b) : a \in Pieces, b \in Pieces}

\* Inputs of WriteBatch::from: a header with sequence 1 and a count of 0, 1 or 2
\* before a body, and an input one byte short of a header.
ForgedReps ==
    {Cat(Cat(Fixed64Bytes(1), Fixed32Bytes(c)), b) : c \in 0..2, b \in Bodies}
      \cup {Rep(0, WRITE_BATCH_HEADER_SIZE - 1)}

InitWB ==
    /\ mem_table = MemTable_default
    /\ sequence = 0
    /\ wb = WriteBatch_new
    /\ file = <<>>
    /\ block_offset = 0
    /\ reader = Reader_new
    /\ lock = RwLock_new
    /\ builder = NoBlock
    /\ block_iter = NoBlock
    /\ pc = "idle"
    /\ call = NoCall
    /\ result = Res("Ok", <<>>)
    /\ hist = [ops |-> <<>>, forged |-> FALSE, applies |-> 0, seq |-> 0]

\* batch.put(key, value)
WB_put(key, value) ==
    /\ ~hist.forged
    /\ Len(hist.ops) < MaxBatchOps
    /\ wb' = WriteBatch_put(wb, key, value)
    /\ hist' = [hist EXCEPT !.ops = Append(@, [kind |-> "Value", key |-> key, value |-> value])]
    /\ call' = [NoCall EXCEPT !.op = "put"]
    /\ UNCHANGED <<lock, builder, block_iter, mem_table, sequence, file, block_offset, reader, pc, result>>

\* batch.delete(key)
WB_delete(key) ==
    /\ ~hist.forged
    /\ Len(hist.ops) < MaxBatchOps
    /\ wb' = WriteBatch_delete(wb, key)
    /\ hist' = [hist EXCEPT !.ops = Append(@, [kind |-> "Deletion", key |-> key, value |-> <<>>])]
    /\ call' = [NoCall EXCEPT !.op = "delete"]
    /\ UNCHANGED <<lock, builder, block_iter, mem_table, sequence, file, block_offset, reader, pc, result>>

\* batch.set_sequence(s)
WB_set_sequence(s) ==
    /\ wb' = WriteBatch_set_sequence(wb, s)
    /\ call' = [NoCall EXCEPT !.op = "set_sequence", !.last_sequence = s]
    /\ hist' = [hist EXCEPT !.seq = s]
    /\ UNCHANGED <<lock, builder, block_iter, mem_table, sequence, file, block_offset, reader, pc, result>>

\* batch.clear()
WB_clear ==
    /\ wb' = WriteBatch_clear(wb)
    /\ hist' = [hist EXCEPT !.ops = <<>>, !.forged = FALSE, !.seq = 0]
    /\ call' = [NoCall EXCEPT !.op = "clear"]
    /\ UNCHANGED <<lock, builder, block_iter, mem_table, sequence, file, block_offset, reader, pc, result>>

\* batch = WriteBatch::from(bytes)?, a new batch in the place of an empty one
WB_from(bytes) ==
    /\ hist.ops = <<>> /\ ~hist.forged
    /\ result' = Res(WriteBatch_from(bytes).status, <<>>)
    /\ wb' = IF WriteBatch_from(bytes).status = "Ok" THEN WriteBatch_from(bytes).rep ELSE wb
    /\ hist' = IF WriteBatch_from(bytes).status = "Ok"
               THEN [hist EXCEPT !.ops = <<>>, !.forged = TRUE]
               ELSE hist
    /\ call' = [NoCall EXCEPT !.op = "from"]
    /\ UNCHANGED <<lock, builder, block_iter, mem_table, sequence, file, block_offset, reader, pc>>

\* batch.apply_to(&mut mem_table)
WB_apply_to ==
    /\ hist.applies < MaxApplies
    /\ mem_table' = WriteBatch_apply_to(wb, mem_table).mem_table
    /\ result' = Res(WriteBatch_apply_to(wb, mem_table).status, <<>>)
    /\ call' = [NoCall EXCEPT !.op = "apply_to", !.mem0 = mem_table]
    /\ hist' = [hist EXCEPT !.applies = @ + 1]
    /\ UNCHANGED <<lock, builder, block_iter, sequence, wb, file, block_offset, reader, pc>>

\* let mut iter = batch.iter(), and iter.next() until None or an error
WB_iter ==
    /\ result' = Res(WriteBatch_iter(wb).status, WriteBatch_iter(wb).items)
    /\ call' = [NoCall EXCEPT !.op = "iter"]
    /\ UNCHANGED <<lock, builder, block_iter, mem_table, sequence, wb, file, block_offset, reader, pc, hist>>

NextWB ==
    \/ \E key \in Keys, value \in Values : WB_put(key, value)
    \/ \E key \in Keys : WB_delete(key)
    \/ \E s \in {300} : WB_set_sequence(s)
    \/ WB_clear
    \/ \E bytes \in ForgedReps : WB_from(bytes)
    \/ WB_apply_to

SpecWB == InitWB /\ [][NextWB]_vars

\* C5 (as claimed): an apply_to that returned an error has left the memtable
\* as it found it.
C5_ApplyAllOrNothing ==
    (call.op = "apply_to" /\ result.status = "Corruption") => mem_table = call.mem0

\* the varint32 length in front of a slice of fewer than 2^14 bytes
LengthPrefixed(a) ==
    IF BLen(a) < 128 THEN Cat(FromList(<<BLen(a)>>), a)
    ELSE Cat(FromList(<<128 + (BLen(a) % 128), BLen(a) \div 128>>), a)

\* an op as the layout describes it: tag 1, length-prefixed key,
\* length-prefixed value for a put and tag 0, length-prefixed key for a delete
LayoutOfOp(op) ==
    IF op.kind = "Value"
    THEN Cat(Cat(FromList(<<1>>), LengthPrefixed(op.key)), LengthPrefixed(op.value))
    ELSE Cat(FromList(<<0>>), LengthPrefixed(op.key))

RECURSIVE LayoutOfOps(_)
LayoutOfOps(ops) ==
    IF ops = <<>> THEN <<>> ELSE Cat(LayoutOfOp(ops[1]), LayoutOfOps(Tail(ops)))

\* the eight bytes of a sequence number below 2^16, least significant first
LayoutOfSequence(s) ==
    FromList(<<s % 256, s \div 256, 0, 0, 0, 0, 0, 0>>)

\* C19: after any put, delete, set_sequence and clear calls, the contents are
\* the sequence in 8 bytes (the last one set since the last clear, else 0),
\* the number of puts and deletes since the last clear in 4 bytes, both
\* little-endian, and those ops in call order; a new or cleared batch is 12
\* zero bytes; set_sequence leaves all but the first 8 bytes as they were.
C19_BatchLayout ==
    ~hist.forged =>
        /\ wb = Cat(Cat(LayoutOfSequence(hist.seq),
                        FromList(<<Len(hist.ops), 0, 0, 0>>)),
                    LayoutOfOps(hist.ops))
        /\ (hist.ops = <<>> /\ hist.seq = 0) => wb = <<<<0, 12>>>>

\* a put and a delete were staged and the sequence set after them
C19_Witness ==
    /\ ~hist.forged
    /\ call.op = "set_sequence"
    /\ hist.seq = 300
    /\ Len(hist.ops) = 2
    /\ hist.ops[1].kind = "Value" /\ hist.ops[2].kind = "Deletion"
    /\ BLen(hist.ops[1].key) > 0 /\ BLen(hist.ops[1].value) > 0

RECURSIVE OpsEncoded(_, _)
\* the number of ops that lie between offset and the end of rep when the
\* bytes are ops from there to the end, and -1 when they are not
OpsEncoded(rep, offset) ==
    LET n == WriteBatchIter_next(rep, offset)
    IN  IF n.kind = "None" THEN 0
        ELSE IF n.kind \in {"Corruption", "Panic"} THEN -1
        ELSE IF OpsEncoded(rep, n.offset) < 0 THEN -1
        ELSE 1 + OpsEncoded(rep, n.offset)

\* C18: applying a batch whose header count differs from the number of ops
\* its bytes hold (fewer ops than count before the bytes end, or bytes left
\* after count ops) is reported as Corruption.
C18_CountMismatchIsCorruption ==
    (/\ call.op = "apply_to"
     /\ BLen(wb) >= WRITE_BATCH_HEADER_SIZE
     /\ OpsEncoded(wb, WRITE_BATCH_HEADER_SIZE) >= 0
     /\ OpsEncoded(wb, WRITE_BATCH_HEADER_SIZE) # WriteBatch_get_count(wb))
        => result.status = "Corruption"

(***************************************************************************)
(* The log on its own: payloads appended by a Writer, the file then left   *)
(* as it is, extended by zero bytes, cut inside its last record or         *)
(* extended by a fragment with any header, and read by a new Reader        *)
(***************************************************************************)

\* Payloads appended in one run, and reads made after the first Ok(None).
MaxAppends == 2

MaxReadsPastEnd == 1

\* Payload lengths: none, one, the header's size, what leaves exactly a
\* header's room in a block (BLOCK_SIZE - 14), what leaves less (a zero-filled
\* tail), what fills a block to its end (and takes two fragments after any
\* other record), and what takes three fragments.
PayloadSizes ==
    {0, 1, HEADER_SIZE, BLOCK_SIZE - 2 * HEADER_SIZE, BLOCK_SIZE - HEADER_SIZE - 3,
     BLOCK_SIZE - HEADER_SIZE, 2 * BLOCK_SIZE + 1}

\* The payload of n bytes: 7, zeros, 9 (zeros as in a block's padding, and
\* ends that tell a swapped, doubled or cut fragment)
Payload(n) ==
    IF n = 0 THEN <<>>
    ELSE IF n = 1 THEN Rep(7, 1)
    ELSE Cat(Cat(Rep(7, 1), Rep(0, n - 2)), Rep(9, 1))

\* Outcomes of the successive file.read calls of a reader ("ok" after them)
IoPlans ==
    {<<>>, <<"interrupted", "error">>, <<"ok", "interrupted">>}

\* Where the file is cut: d bytes after the start of the last record, before
\* the end of the file, or after a block boundary
TruncAnchors == {"record", "end", "block 1", "block 2"}

TruncOffsets == {0, 1, HEADER_SIZE, HEADER_SIZE + 1}

TruncPoint(anchor, d) ==
    CASE anchor = "record"  -> hist.last_start + d
      [] anchor = "end"     -> BLen(file) - d
      [] anchor = "block 1" -> BLOCK_SIZE + d
      [] anchor = "block 2" -> 2 * BLOCK_SIZE + d

\* Zero bytes added to the file
ZeroSuffixes == {1, HEADER_SIZE, BLOCK_SIZE + 7232}

\* Fragments with any header: the length field and the bytes that follow it
ForgedLengths == {<<0, 0>>, <<5, 2>>, <<40000, 100>>}

ForgedTypes == {Zero, Full, First, Middle, 9}

InitLog ==
    /\ mem_table = MemTable_default
    /\ sequence = 0
    /\ wb = WriteBatch_new
    /\ file = <<>>
    /\ block_offset = 0
    /\ reader = Reader_new
    /\ lock = RwLock_new
    /\ builder = NoBlock
    /\ block_iter = NoBlock
    /\ pc = "writing"
    /\ call = NoCall
    /\ result = Res("Ok", <<>>)
    /\ hist = [appended |-> <<>>, last_start |-> 0, damage |-> "none",
               forged_length |-> 0, returned |-> <<>>, io |-> <<>>,
               faulted |-> FALSE, written |-> <<>>]

\* writer.append(message)
Log_append(message) ==
    /\ pc = "writing"
    /\ hist.damage = "none"
    /\ Len(hist.appended) < MaxAppends
    /\ LET w == Writer_append(file, block_offset, message, NoFault)
       IN  /\ file' = w.file
           /\ block_offset' = w.block_offset
           /\ result' = Res(w.status, <<>>)
           /\ hist' = [hist EXCEPT !.appended = Append(@, message),
                                   !.last_start = BLen(file),
                                   !.written = Append(@, w.written)]
    /\ UNCHANGED <<lock, builder, block_iter, mem_table, sequence, wb, reader, pc, call>>

\* n zero bytes are added to the file
Log_zero_extend(n) ==
    /\ pc = "writing"
    /\ hist.damage = "none"
    /\ file' = Cat(file, Rep(0, n))
    /\ hist' = [hist EXCEPT !.damage = "zeros"]
    /\ UNCHANGED <<lock, builder, block_iter, mem_table, sequence, wb, block_offset, reader, pc, call, result>>

\* the file is cut at a position inside its last record
Log_truncate(anchor, d) ==
    /\ pc = "writing"
    /\ hist.damage = "none"
    /\ hist.appended # <<>>
    /\ LET q == TruncPoint(anchor, d)
       IN  /\ hist.last_start <= q
           /\ q < BLen(file)
           /\ file' = Take(file, q)
    /\ hist' = [hist EXCEPT !.damage = "truncated"]
    /\ UNCHANGED <<lock, builder, block_iter, mem_table, sequence, wb, block_offset, reader, pc, call, result>>

\* a fragment with any length and type field, followed by n bytes, is added
Log_forge(length, n, record_type) ==
    /\ pc = "writing"
    /\ hist.damage = "none"
    /\ file' = Cat(Cat(file, WalHeader_bytes(0, length, record_type)), Rep(5, n))
    /\ hist' = [hist EXCEPT !.damage = "forged", !.forged_length = length]
    /\ UNCHANGED <<lock, builder, block_iter, mem_table, sequence, wb, block_offset, reader, pc, call, result>>

\* Reader::new(file) on the file as it is now; plan is how the file.read calls
\* of this reader will end
Reader_open(plan) ==
    /\ pc = "writing"
    /\ pc' = "reading"
    /\ reader' = Reader_new
    /\ hist' = [hist EXCEPT !.io = plan, !.faulted = (plan # <<>>)]
    /\ UNCHANGED <<lock, builder, block_iter, mem_table, sequence, wb, file, block_offset, call, result>>

\* the number of Ok(None) among the answers
Nones(returned) ==
    Cardinality({i \in 1..Len(returned) : returned[i].status = "None"})

\* reader.read()
Log_read ==
    /\ pc = "reading"
    /\ Nones(hist.returned) <= MaxReadsPastEnd
    /\ LET r == Reader_read(reader, file, hist.io)
       IN  /\ reader' = r.rd
           /\ result' = Res(r.status, r.value)
           /\ hist' = [hist EXCEPT !.returned = Append(@, Res(r.status, r.value)),
                                   !.io = r.plan]
    /\ UNCHANGED <<lock, builder, block_iter, mem_table, sequence, wb, file, block_offset, pc, call>>

NextLog ==
    \/ \E n \in PayloadSizes : Log_append(Payload(n))
    \/ \E n \in ZeroSuffixes : Log_zero_extend(n)
    \/ \E anchor \in TruncAnchors, d \in TruncOffsets : Log_truncate(anchor, d)
    \/ \E f \in ForgedLengths, t \in ForgedTypes : Log_forge(f[1], f[2], t)
    \/ \E plan \in IoPlans : Reader_open(plan)
    \/ Log_read

SpecLog == InitLog /\ [][NextLog]_vars

(***************************************************************************)
(* Claims about the log                                                    *)
(***************************************************************************)

\* the payloads among the answers of the reader, in order
Somes(returned) ==
    LET some == SelectSeq(returned, LAMBDA r : r.status = "Some")
    IN  [i \in 1..Len(some) |-> some[i].value]

IsPrefix(a, b) ==
    /\ Len(a) <= Len(b)
    /\ \A i \in 1..Len(a) : a[i] = b[i]

C10_ReaderNeverPanics ==
    pc = "reading" =>
        /\ result.status \in {"Ok", "Some", "None", "Corruption", "IOError"}
        /\ reader.buffer_offset <= reader.buffer_length
        /\ reader.buffer_length <= BLOCK_SIZE

\* a forged fragment whose length field exceeds a block, read with a failing
\* file.read: the reader reported it and went on to the end of the file
C10_Witness ==
    /\ pc = "reading"
    /\ hist.forged_length > BLOCK_SIZE
    /\ hist.faulted
    /\ hist.io = <<>>
    /\ \E i \in 1..Len(hist.returned) : hist.returned[i].status = "Corruption"
    /\ result.status = "None"

(***************************************************************************)
(* The server: tasks that serve get and set requests on one DB behind an   *)
(* RwLock (main.rs). pc, call and result are per task.                     *)
(***************************************************************************)

\* tasks that serve requests at the same time, and requests served in a run
NumTasks == 2

MaxRequests == 2

Tasks == 1..NumTasks

\* self.storage.write() returns without regard to who holds the lock
RwLock_can_write_unguarded(l) ==
    TRUE

\* RwLock::write returns once no writer and no reader holds the lock
RwLock_can_write(l) ==
    l.writer = 0 /\ l.readers = {}

\* RwLock::read returns once no writer holds the lock
RwLock_can_read(l) ==
    l.writer = 0

\* the positions of a task inside DB::put
InCommit == {"put", "append", "sync", "apply", "publish"}

InitSrv ==
    /\ mem_table = MemTable_default
    /\ sequence = 0
    /\ wb = WriteBatch_new
    /\ file = <<>>
    /\ block_offset = 0
    /\ reader = Reader_new
    /\ lock = RwLock_new
    /\ builder = NoBlock
    /\ block_iter = NoBlock
    /\ pc = [t \in Tasks |-> "idle"]
    /\ call = [t \in Tasks |-> NoCall]
    /\ result = [t \in Tasks |-> Res("Ok", <<>>)]
    /\ hist = [requests |-> 0, faults |-> 0, commits |-> 0, expect |-> <<>>,
               published |-> MemTable_default]

\* a GetRequest reaches task t, which calls self.storage.read() (line 26)
Srv_get_request(t, key) ==
    /\ pc[t] = "idle"
    /\ hist.requests < MaxRequests
    /\ pc' = [pc EXCEPT ![t] = "read_lock"]
    /\ call' = [call EXCEPT ![t] = [NoCall EXCEPT !.op = "get", !.key = key]]
    /\ result' = [result EXCEPT ![t] = Res("Running", <<>>)]
    /\ hist' = [hist EXCEPT !.requests = @ + 1]
    /\ UNCHANGED <<mem_table, sequence, wb, file, block_offset, reader, lock, builder, block_iter>>

\* line 26: the read lock is taken
Srv_read_lock(t) ==
    /\ pc[t] = "read_lock"
    /\ RwLock_can_read(lock)
    /\ lock' = [lock EXCEPT !.readers = @ \cup {t}]
    /\ pc' = [pc EXCEPT ![t] = "get"]
    /\ UNCHANGED <<mem_table, sequence, wb, file, block_offset, reader, builder, block_iter, call, result, hist>>

\* lines 27-37: storage.get(&request.key) and the response; the guard is
\* dropped when get returns
Srv_get(t) ==
    /\ pc[t] = "get"
    /\ result' = [result EXCEPT ![t] = DB_get(mem_table, call[t].key)]
    /\ call' = [call EXCEPT ![t].mem0 = mem_table, ![t].seq0 = sequence]
    /\ lock' = [lock EXCEPT !.readers = @ \ {t}]
    /\ pc' = [pc EXCEPT ![t] = "idle"]
    /\ UNCHANGED <<mem_table, sequence, wb, file, block_offset, reader, builder, block_iter, hist>>

\* a SetRequest reaches task t, which calls self.storage.write() (line 43)
Srv_set_request(t, key, value, sync) ==
    /\ pc[t] = "idle"
    /\ hist.requests < MaxRequests
    /\ pc' = [pc EXCEPT ![t] = "write_lock"]
    /\ call' = [call EXCEPT ![t] = [NoCall EXCEPT !.op = "put", !.key = key,
                                                  !.item = Value(value), !.sync = sync]]
    /\ result' = [result EXCEPT ![t] = Res("Running", <<>>)]
    /\ hist' = [hist EXCEPT !.requests = @ + 1]
    /\ UNCHANGED <<mem_table, sequence, wb, file, block_offset, reader, lock, builder, block_iter>>

\* line 43: the write lock is taken
Srv_write_lock(t) ==
    /\ pc[t] = "write_lock"
    /\ RwLock_can_write(lock)
    /\ lock' = [lock EXCEPT !.writer = t]
    /\ pc' = [pc EXCEPT ![t] = "put"]
    /\ UNCHANGED <<mem_table, sequence, wb, file, block_offset, reader, builder, block_iter, call, result, hist>>

\* line 44: storage.put, which is DB::put up to line 111 of write
Srv_put(t) ==
    /\ pc[t] = "put"
    /\ wb' = write_stamp(WriteBatch_put(WriteBatch_clear(wb), call[t].key, call[t].item.v),
                         sequence)
    /\ call' = [call EXCEPT ![t] = StagedCall("put", call[t].key, call[t].item,
                                              call[t].sync, wb')]
    /\ pc' = [pc EXCEPT ![t] = PcOf(write_next("stage", TRUE, call[t].sync))]
    /\ UNCHANGED <<mem_table, sequence, file, block_offset, reader, lock, builder, block_iter, result, hist>>

\* where task t stands after a step of DB::write: a return leaves put and
\* reaches the end of the block that holds the guard (line 45)
SrvPcOf(next) ==
    IF PcOf(next) = "idle" THEN "unlock" ELSE next

\* DB::write line 112, by task t
Srv_append(t) ==
    /\ pc[t] = "append"
    /\ LET w    == Writer_append(file, block_offset, wb, NoFault)
           next == write_next("append", w.status = "Ok", call[t].sync)
       IN  /\ file' = w.file
           /\ block_offset' = w.block_offset
           /\ pc' = [pc EXCEPT ![t] = SrvPcOf(next)]
           /\ result' = IF next = "return"
                        THEN [result EXCEPT ![t] = Res(w.status, <<>>)] ELSE result
    /\ UNCHANGED <<mem_table, sequence, wb, reader, lock, builder, block_iter, call, hist>>

\* DB::write lines 114-116, by task t
Srv_sync(t, ok) ==
    /\ pc[t] = "sync"
    /\ ~ok => hist.faults < MaxFaults
    /\ LET next == write_next("sync", ok, call[t].sync)
       IN  /\ pc' = [pc EXCEPT ![t] = SrvPcOf(next)]
           /\ result' = IF next = "return"
                        THEN [result EXCEPT ![t] = Res("IOError", <<>>)] ELSE result
    /\ hist' = IF ok THEN hist ELSE [hist EXCEPT !.faults = @ + 1]
    /\ UNCHANGED <<mem_table, sequence, wb, file, block_offset, reader, lock, builder, block_iter, call>>

\* DB::write line 117, by task t
Srv_apply(t) ==
    /\ pc[t] = "apply"
    /\ LET a    == WriteBatch_apply_to(wb, mem_table)
           next == write_next("apply", a.status = "Ok", call[t].sync)
       IN  /\ mem_table' = a.mem_table
           /\ pc' = [pc EXCEPT ![t] = SrvPcOf(next)]
           /\ result' = IF next = "return"
                        THEN [result EXCEPT ![t] = Res(a.status, <<>>)] ELSE result
    /\ UNCHANGED <<sequence, wb, file, block_offset, reader, lock, builder, block_iter, call, hist>>

\* DB::write lines 119-120, by task t
Srv_publish(t) ==
    /\ pc[t] = "publish"
    /\ sequence' = call[t].last_sequence
    /\ pc' = [pc EXCEPT ![t] = SrvPcOf(write_next("publish", TRUE, call[t].sync))]
    /\ result' = [result EXCEPT ![t] = Res("Ok", <<>>)]
    /\ hist' = [hist EXCEPT !.commits = @ + 1,
                            !.expect = MapPut(@, call[t].key, call[t].item),
                            !.published = mem_table]
    /\ UNCHANGED <<mem_table, wb, file, block_offset, reader, lock, builder, block_iter, call>>

\* line 45: the guard is dropped; lines 47-50 answer Ok whatever put returned
Srv_unlock(t) ==
    /\ pc[t] = "unlock"
    /\ lock' = [lock EXCEPT !.writer = IF @ = t THEN 0 ELSE @]
    /\ pc' = [pc EXCEPT ![t] = "idle"]
    /\ UNCHANGED <<mem_table, sequence, wb, file, block_offset, reader, builder, block_iter, call, result, hist>>

NextSrv ==
    \/ \E t \in Tasks, key \in Keys : Srv_get_request(t, key)
    \/ \E t \in Tasks : Srv_read_lock(t)
    \/ \E t \in Tasks : Srv_get(t)
    \/ \E t \in Tasks, key \in Keys, value \in Values, sync \in BOOLEAN :
          Srv_set_request(t, key, value, sync)
    \/ \E t \in Tasks : Srv_write_lock(t)
    \/ \E t \in Tasks : Srv_put(t)
    \/ \E t \in Tasks : Srv_append(t)
    \/ \E t \in Tasks, ok \in BOOLEAN : Srv_sync(t, ok)
    \/ \E t \in Tasks : Srv_apply(t)
    \/ \E t \in Tasks : Srv_publish(t)
    \/ \E t \in Tasks : Srv_unlock(t)

SpecSrv == InitSrv /\ [][NextSrv]_vars

\* C11: at most one task is inside DB::put at any time, and while a task
\* stands at its storage.get no task is inside DB::put: the memtable it reads
\* holds every op of the commits that published their sequence and no op of
\* any other.
C11_OneCommitAtATime ==
    LET committing == {t \in Tasks : pc[t] \in InCommit}
        getting    == {t \in Tasks : pc[t] = "get"}
    IN  /\ Cardinality(committing) <= 1
        /\ getting # {} =>
              /\ committing = {}
              /\ mem_table = hist.published
              /\ sequence = hist.commits
              /\ \A key \in Keys :
                    DB_get(mem_table, key) =
                        IF key \in DOMAIN hist.expect
                        THEN Answer(hist.expect[key])
                        ELSE Res("NotFound", <<>>)

\* a commit stands between its append and its publication, its op in the
\* memtable already, while a get of another task waits for the lock
C11_Witness ==
    \E t1, t2 \in Tasks :
        /\ pc[t1] = "publish"
        /\ mem_table # hist.published
        /\ pc[t2] = "read_lock"
        /\ lock.writer = t1

(***************************************************************************)
(* Claims about the memtable, checked under Spec                           *)
(***************************************************************************)

\* C12 (as claimed): MemTable::get, and DB::get over it, answer differently
\* for a key whose entry is a tombstone and for a key that was never
\* inserted.
C12_TombstoneNotAbsent ==
    \A k, a \in GetKeys :
        (/\ k \in DOMAIN mem_table.items
         /\ mem_table.items[k].tag = "Deletion"
         /\ a \notin DOMAIN mem_table.items)
        => /\ MemTable_get(mem_table, k) # MemTable_get(mem_table, a)
           /\ DB_get(mem_table, k) # DB_get(mem_table, a)

(***************************************************************************)
(* The memtable on its own: set, delete and iter                           *)
(***************************************************************************)

\* calls of set and delete in one run
MaxMemOps == 3

\* keys: the empty key, a key and its extension, a greater key, a key whose
\* byte is above 127
MemKeys ==
    {<<>>, FromList(<<97>>), FromList(<<97, 98>>), FromList(<<98>>), FromList(<<200>>)}

MemValues == {<<>>, FromList(<<118, 49>>)}

\* the orders in which a HashMap may hand over the keys S
KeyOrders(S) ==
    {o \in [1..Cardinality(S) -> S] : \A i, j \in 1..Cardinality(S) : i # j => o[i] # o[j]}

InitMem ==
    /\ mem_table = MemTable_default
    /\ sequence = 0
    /\ wb = WriteBatch_new
    /\ file = <<>>
    /\ block_offset = 0
    /\ reader = Reader_new
    /\ lock = RwLock_new
    /\ builder = NoBlock
    /\ block_iter = NoBlock
    /\ pc = "idle"
    /\ call = [op |-> "none", key |-> <<>>, order |-> <<>>]
    /\ result = Res("Ok", <<>>)
    /\ hist = [ops |-> 0, touched |-> {}]

\* memtable.set(key, value)
Mem_set(key, value) ==
    /\ hist.ops < MaxMemOps
    /\ mem_table' = MemTable_set(mem_table, key, value)
    /\ call' = [op |-> "set", key |-> key, order |-> <<>>]
    /\ result' = Res("Ok", <<>>)
    /\ hist' = [hist EXCEPT !.ops = @ + 1, !.touched = @ \cup {key}]
    /\ UNCHANGED <<sequence, wb, file, block_offset, reader, lock, builder, block_iter, pc>>

\* memtable.delete(key)
Mem_delete(key) ==
    /\ hist.ops < MaxMemOps
    /\ mem_table' = MemTable_delete(mem_table, key)
    /\ call' = [op |-> "delete", key |-> key, order |-> <<>>]
    /\ result' = Res("Ok", <<>>)
    /\ hist' = [hist EXCEPT !.ops = @ + 1, !.touched = @ \cup {key}]
    /\ UNCHANGED <<sequence, wb, file, block_offset, reader, lock, builder, block_iter, pc>>

\* memtable.get(key)
Mem_get(key) ==
    /\ call' = [op |-> "get", key |-> key, order |-> <<>>]
    /\ result' = IF MemTable_get(mem_table, key).some
                 THEN Res("Some", MemTable_get(mem_table, key).v)
                 ELSE Res("None", <<>>)
    /\ UNCHANGED <<mem_table, sequence, wb, file, block_offset, reader, lock, builder, block_iter, pc, hist>>

\* memtable.iter().collect(), the HashMap handing its keys over in some order
Mem_iter ==
    /\ \E order \in KeyOrders(DOMAIN mem_table.items) :
          /\ call' = [op |-> "iter", key |-> <<>>, order |-> order]
          /\ result' = Res("Ok", MemTable_iter(mem_table, order))
    /\ UNCHANGED <<mem_table, sequence, wb, file, block_offset, reader, lock, builder, block_iter, pc, hist>>

NextMem ==
    \/ \E key \in MemKeys, value \in MemValues : Mem_set(key, value)
    \/ \E key \in MemKeys : Mem_delete(key)
    \/ \E key \in MemKeys : Mem_get(key)
    \/ Mem_iter

SpecMem == InitMem /\ [][NextMem]_vars

RECURSIVE Bytes(_)
\* the bytes of a byte string, one by one
Bytes(a) ==
    IF a = <<>> THEN <<>>
    ELSE [i \in 1..a[1][2] |-> a[1][1]] \o Bytes(Tail(a))

\* x comes before y in bytewise order
BytewiseBefore(x, y) ==
    \/ /\ Len(x) < Len(y)
       /\ \A j \in 1..Len(x) : x[j] = y[j]
    \/ \E k \in 1..(IF Len(x) < Len(y) THEN Len(x) ELSE Len(y)) :
          /\ x[k] < y[k]
          /\ \A j \in 1..(k - 1) : x[j] = y[j]

\* C13: what MemTable::iter yields after any calls of set and delete is every
\* entry of the memtable once, a deleted key as Deletion, the keys in strictly
\* ascending bytewise order.
C13_IterAscending ==
    call.op = "iter" =>
        LET out == result.value
        IN  /\ Len(out) = mem_table.entry_count
            /\ {out[i][1] : i \in 1..Len(out)} = DOMAIN mem_table.items
            /\ \A i \in 1..Len(out) : out[i][2] = mem_table.items[out[i][1]]
            /\ \A i, j \in 1..Len(out) :
                  i < j => BytewiseBefore(Bytes(out[i][1]), Bytes(out[j][1]))

\* three entries, one of them deleted, one key a prefix of another and one
\* with a byte above 127, handed over by the map in another order than the
\* one iter yields
C13_Witness ==
    /\ call.op = "iter"
    /\ Len(result.value) = 3
    /\ \E i \in 1..3 : result.value[i][2] = Deletion
    /\ {FromList(<<97>>), FromList(<<97, 98>>), FromList(<<200>>)} = DOMAIN mem_table.items
    /\ call.order # [i \in 1..3 |-> result.value[i][1]]

(***************************************************************************)
(* Blocks: BlockBuilder (src/src/lib.rs), Block and BlockIterator          *)
(* (src/src/table.rs)                                                      *)
(***************************************************************************)

\* put_fixed32
put_fixed32(buf, value) ==
    Cat(buf, Fixed32Bytes(value))

\* BlockBuilder::new
BlockBuilder_new(block_restart_interval) ==
    [buf |-> <<>>, restarts |-> <<0>>, last_key |-> <<>>, counter |-> 0,
     block_restart_interval |-> block_restart_interval]

RECURSIVE shared_prefix(_, _)
\* the while loop of BlockBuilder::add: the number of leading bytes that key
\* and last_key have in common
shared_prefix(key, last_key) ==
    IF key = <<>> \/ last_key = <<>> \/ key[1][1] # last_key[1][1] THEN 0
    ELSE LET n == IF key[1][2] < last_key[1][2] THEN key[1][2] ELSE last_key[1][2]
         IN  IF key[1][2] = last_key[1][2]
             THEN n + shared_prefix(Tail(key), Tail(last_key))
             ELSE n

\* an add that never starts a restart point
restarts_here_never(b) ==
    FALSE

\* BlockBuilder::add, the else branch: a restart point is due
restarts_here(b) ==
    ~(b.counter < b.block_restart_interval)

\* BlockBuilder::add
BlockBuilder_add(b, key, value) ==
    LET restart    == restarts_here(b)
        shared     == IF restart THEN 0 ELSE shared_prefix(key, b.last_key)
        non_shared == BLen(key) - shared
        buf1       == put_varint32(b.buf, shared).buf
        buf2       == put_varint32(buf1, non_shared).buf
        buf3       == put_varint32(buf2, BLen(value)).buf
    IN  [buf      |-> Cat(Cat(buf3, Drop(key, shared)), value),
         restarts |-> IF restart THEN Append(b.restarts, BLen(b.buf)) ELSE b.restarts,
         last_key |-> key,
         counter  |-> (IF restart THEN 0 ELSE b.counter) + 1,
         block_restart_interval |-> b.block_restart_interval]

RECURSIVE write_restarts(_, _)
\* the for loop of BlockBuilder::finish
write_restarts(buf, restarts) ==
    IF restarts = <<>> THEN buf
    ELSE write_restarts(Cat(buf, Fixed32Bytes(restarts[1])), Tail(restarts))

\* BlockBuilder::finish
BlockBuilder_finish(b) ==
    put_fixed32(write_restarts(b.buf, b.restarts), Len(b.restarts))

\* get_num_restarts: asserts size >= 4
get_num_restarts(data) ==
    IF BLen(data) < 4 THEN [panic |-> TRUE, value |-> 0]
    ELSE decode_fixed32(Drop(data, BLen(data) - 4))

\* Block::new: "Some" with the block, "None", or "Panic" on data of fewer
\* than four bytes (data.len() - 4)
Block_new(data) ==
    IF BLen(data) < 4 THEN [kind |-> "Panic", data |-> data, restart_offset |-> 0]
    ELSE LET max_restarts_allowed == (BLen(data) - 4) \div 4
             n == get_num_restarts(data).value
         IN  IF n > max_restarts_allowed
             THEN [kind |-> "None", data |-> data, restart_offset |-> 0]
             ELSE [kind |-> "Some", data |-> data,
                   restart_offset |-> BLen(data) - (1 + n) * 4]

RECURSIVE decode_varint32_option_loop(_, _, _, _)
\* the varint32 decoder that table.rs imports: a value and the bytes read, or
\* None when the bytes end inside the varint or a fifth byte carries on
decode_varint32_option_loop(buf, value, shift, offset) ==
    IF offset >= BLen(buf) \/ shift > 28
    THEN [some |-> FALSE, value |-> 0, bytes |-> 0]
    ELSE LET byte == At(buf, offset)
             v    == value + (byte % 128) * Pow2(shift)
         IN  IF byte >= 128
             THEN decode_varint32_option_loop(buf, v, shift + 7, offset + 1)
             ELSE [some |-> TRUE, value |-> v, bytes |-> offset + 1]

decode_varint32_option(buf) ==
    decode_varint32_option_loop(buf, 0, 0, 0)

NoEntry ==
    [some |-> FALSE, key_offset |-> 0, shared |-> 0, non_shared |-> 0, value_length |-> 0]

\* decode_entry: the offset of the key bytes, shared, non_shared, value_length
decode_entry(data) ==
    IF BLen(data) < 3 THEN NoEntry
    ELSE IF At(data, 0) < 128 /\ At(data, 1) < 128 /\ At(data, 2) < 128
    THEN IF BLen(data) - 3 < At(data, 1) + At(data, 2) THEN NoEntry
         ELSE [some |-> TRUE, key_offset |-> 3, shared |-> At(data, 0),
               non_shared |-> At(data, 1), value_length |-> At(data, 2)]
    ELSE LET d1 == decode_varint32_option(data)
             d2 == decode_varint32_option(Drop(data, d1.bytes))
             d3 == decode_varint32_option(Drop(data, d1.bytes + d2.bytes))
             key_offset == d1.bytes + d2.bytes + d3.bytes
         IN  IF ~d1.some THEN NoEntry
             ELSE IF ~d2.some THEN NoEntry
             ELSE IF ~d3.some THEN NoEntry
             ELSE IF BLen(data) - key_offset < d2.value + d3.value THEN NoEntry
             ELSE [some |-> TRUE, key_offset |-> key_offset, shared |-> d1.value,
                   non_shared |-> d2.value, value_length |-> d3.value]

\* Block::iter: BlockIterator::new(data, restart_offset, get_num_restarts(data))
BlockIterator_new(block) ==
    [block |-> block.data, restart_offset |-> block.restart_offset,
     num_restarts |-> get_num_restarts(block.data).value,
     current |-> 0, current_restart_index |-> 0, key |-> <<>>,
     value_offset |-> 0, value_size |-> 0]

\* a resize that never shortens the key
resize_grow_only(key, n) ==
    IF n <= BLen(key) THEN key ELSE Cat(key, Rep(0, n - BLen(key)))

\* self.key.resize(n, 0)
resize(key, n) ==
    IF n <= BLen(key) THEN Take(key, n) ELSE Cat(key, Rep(0, n - BLen(key)))

\* get_restart_point
get_restart_point(it, idx) ==
    decode_fixed32(Drop(it.block, it.restart_offset + idx * 4)).value

RECURSIVE restart_index_loop(_, _, _)
\* the while loop of BlockIterator::next
restart_index_loop(it, current, idx) ==
    IF idx + 1 < it.num_restarts /\ get_restart_point(it, idx + 1) <= current
    THEN restart_index_loop(it, current, idx + 1)
    ELSE idx

\* BlockIterator::next: the iterator as next leaves it and what it returns,
\* Some((key, value)) or None
BlockIterator_next(it) ==
    LET current == it.current + it.value_offset + it.value_size
        here    == [it EXCEPT !.current = current]
        entry   == decode_entry(Slice(it.block, current, it.restart_offset))
        key     == Cat(resize(it.key, entry.shared),
                       Slice(it.block, current + entry.key_offset,
                             current + entry.key_offset + entry.non_shared))
        value_offset == entry.key_offset + entry.non_shared
        there   == [here EXCEPT
                       !.key = key,
                       !.value_offset = value_offset,
                       !.value_size = entry.value_length,
                       !.current_restart_index =
                           restart_index_loop(it, current, it.current_restart_index)]
    IN  IF current >= it.restart_offset
        THEN [it |-> here, kind |-> "None", key |-> <<>>, value |-> <<>>]
        ELSE IF ~entry.some
        THEN [it |-> here, kind |-> "None", key |-> <<>>, value |-> <<>>]
        ELSE [it |-> there, kind |-> "Some", key |-> key,
              value |-> Slice(it.block, current + value_offset,
                              current + value_offset + entry.value_length)]

(***************************************************************************)
(* A block built from sorted pairs, closed, opened and iterated            *)
(***************************************************************************)

\* pairs added to one block, and the largest restart interval
MaxEntries == 3

MaxRestartInterval == 2

\* keys: the empty key, keys that share prefixes, and keys of 130 and 131
\* bytes, whose lengths take two varint bytes
BlockKeys ==
    {<<>>, FromList(<<97>>), FromList(<<97, 98>>), FromList(<<98>>),
     Rep(99, 130), Cat(Rep(99, 130), Rep(100, 1))}

\* values: empty, short, and of 200 bytes
BlockValues ==
    {<<>>, FromList(<<118, 49>>), Rep(120, 200)}

InitBlock ==
    /\ mem_table = MemTable_default
    /\ sequence = 0
    /\ wb = WriteBatch_new
    /\ file = <<>>
    /\ block_offset = 0
    /\ reader = Reader_new
    /\ lock = RwLock_new
    /\ \E interval \in 1..MaxRestartInterval :
          /\ builder = BlockBuilder_new(interval)
          /\ hist = [added |-> <<>>, returned |-> <<>>, starts |-> <<>>,
                     interval |-> interval]
    /\ block_iter = NoBlock
    /\ pc = "building"
    /\ call = [op |-> "new"]
    /\ result = Res("Ok", <<>>)

\* block_builder.add(key, value), the keys in sorted order
Block_add(key, value) ==
    /\ pc = "building"
    /\ Len(hist.added) < MaxEntries
    /\ Vec_cmp(builder.last_key, key) # "Greater"
    /\ builder' = BlockBuilder_add(builder, key, value)
    /\ call' = [op |-> "add"]
    /\ hist' = [hist EXCEPT !.added = Append(@, <<key, value>>),
                            !.starts = Append(@, BLen(builder.buf))]
    /\ UNCHANGED <<mem_table, sequence, wb, file, block_offset, reader, lock, block_iter, pc, result>>

\* block_builder.finish(), which consumes the builder
Block_finish ==
    /\ pc = "building"
    /\ result' = Res("Ok", BlockBuilder_finish(builder))
    /\ builder' = NoBlock
    /\ call' = [op |-> "finish"]
    /\ pc' = "finished"
    /\ UNCHANGED <<mem_table, sequence, wb, file, block_offset, reader, lock, block_iter, hist>>

\* Block::new(&data) on the bytes finish returned, and Block::iter
Block_open ==
    /\ pc = "finished"
    /\ LET block == Block_new(result.value)
       IN  /\ block_iter' = IF block.kind = "Some"
                            THEN BlockIterator_new(block) ELSE NoBlock
           /\ pc' = IF block.kind = "Some" THEN "iterating" ELSE "failed"
           /\ result' = Res(block.kind, <<>>)
    /\ call' = [op |-> "open"]
    /\ UNCHANGED <<mem_table, sequence, wb, file, block_offset, reader, lock, builder, hist>>

\* iter.next(), up to the second None
Block_next ==
    /\ pc = "iterating"
    /\ Nones(hist.returned) < 2
    /\ LET n == BlockIterator_next(block_iter)
       IN  /\ block_iter' = n.it
           /\ result' = Res(n.kind, <<n.key, n.value>>)
           /\ hist' = [hist EXCEPT !.returned = Append(@, Res(n.kind, <<n.key, n.value>>))]
    /\ call' = [op |-> "next"]
    /\ UNCHANGED <<mem_table, sequence, wb, file, block_offset, reader, lock, builder, pc>>

NextBlock ==
    \/ \E key \in BlockKeys, value \in BlockValues : Block_add(key, value)
    \/ Block_finish
    \/ Block_open
    \/ Block_next

SpecBlock == InitBlock /\ [][NextBlock]_vars

\* C14: a block built from pairs sorted by key at any restart interval from
\* 1 up and closed with finish is accepted by Block::new, and its iterator
\* returns the i-th pair added, full key and value, at its i-th next and None
\* at every next after the last pair.
C14_BlockRoundTrip ==
    /\ pc # "failed"
    /\ \A i \in 1..Len(hist.returned) :
          hist.returned[i] =
              IF i <= Len(hist.added)
              THEN Res("Some", hist.added[i])
              ELSE Res("None", <<<<>>, <<>>>>)

\* three pairs at restart interval 2: the second key extends the first, the
\* third, of 130 bytes, starts a restart point; all three and the end were
\* returned
C14_Witness ==
    /\ pc = "iterating"
    /\ block_iter.num_restarts = 2
    /\ Len(hist.added) = 3
    /\ hist.added[1][1] = FromList(<<97>>)
    /\ hist.added[2][1] = FromList(<<97, 98>>)
    /\ hist.added[3] = <<Rep(99, 130), Rep(120, 200)>>
    /\ Len(hist.returned) = 4
    /\ hist.returned[3] = Res("Some", hist.added[3])
    /\ hist.returned[4].status = "None"

(***************************************************************************)
(* Tables: serialize_to_sstable (src/src/lib.rs), BlockHandle and Footer   *)
(* (src/src/table.rs)                                                      *)
(***************************************************************************)

RECURSIVE serialize_entries(_, _)
\* the for loop of serialize_to_sstable over the entries memtable.iter() yields
serialize_entries(buf, entries) ==
    IF entries = <<>> THEN buf
    ELSE LET k    == entries[1][1]
             v    == entries[1][2]
             head == Cat(put_varint32(buf, BLen(k)).buf, k)
             body == IF v.tag = "Deletion"
                     THEN Cat(Cat(head, Fixed64Bytes(0)), Fixed32Bytes(0))
                     ELSE Cat(Cat(Cat(head, Fixed64Bytes(1)), Fixed32Bytes(BLen(v.v))), v.v)
         IN  serialize_entries(body, Tail(entries))

\* serialize_to_sstable into an empty Vec<u8>
serialize_to_sstable(memtable, order) ==
    serialize_entries(Fixed32Bytes(memtable.entry_count), MemTable_iter(memtable, order))

BLOCK_HANDLE_MAX_ENCODED_LENGTH == 20

FOOTER_ENCODED_LENGTH == 2 * BLOCK_HANDLE_MAX_ENCODED_LENGTH + 8

\* TABLE_MAGIC_NUMBER = 0xdb4775248b80fb57, as the eight bytes that hold it in
\* memory on a little-endian machine
TABLE_MAGIC_NUMBER ==
    FromList(<<87, 251, 128, 139, 36, 117, 71, 219>>)

\* A u64 is kept as three limbs <<bits 0..27, bits 28..55, bits 56..63>>.
U64(lo) ==
    <<lo, 0, 0>>

RECURSIVE decode_varint64_loop(_, _, _)
\* the varint64 decoder that table.rs imports: a value and the bytes read, or
\* None when the bytes end inside the varint or an eleventh byte would follow
decode_varint64_loop(buf, limbs, i) ==
    IF i >= BLen(buf) \/ i >= 10
    THEN [some |-> FALSE, value |-> U64(0), bytes |-> 0]
    ELSE LET byte == At(buf, i)
             v    == [limbs EXCEPT ![(i \div 4) + 1] =
                                       @ + (byte % 128) * Pow2(7 * (i % 4))]
         IN  IF byte >= 128
             THEN decode_varint64_loop(buf, v, i + 1)
             ELSE [some |-> TRUE, value |-> v, bytes |-> i + 1]

decode_varint64(buf) ==
    decode_varint64_loop(buf, U64(0), 0)

\* BlockHandle::decode_from: Ok((BlockHandle {offset, size}, bytes)) or Corruption
BlockHandle_decode_from(src) ==
    LET o  == decode_varint64(src)
        sz == decode_varint64(Drop(src, o.bytes))
    IN  IF ~o.some THEN [status |-> "Corruption", offset |-> U64(0), size |-> U64(0), bytes |-> 0]
        ELSE IF ~sz.some
        THEN [status |-> "Corruption", offset |-> U64(0), size |-> U64(0), bytes |-> 0]
        ELSE [status |-> "Ok", offset |-> o.value, size |-> sz.value,
              bytes |-> o.bytes + sz.bytes]

\* FooterDecoder::read_from: Some only for a slice of size_of::<FooterDecoder>()
\* bytes, rep its first 40 and magic its last 8
FooterDecoder_read_from(src) ==
    IF BLen(src) # FOOTER_ENCODED_LENGTH
    THEN [some |-> FALSE, rep |-> <<>>, magic |-> <<>>]
    ELSE [some |-> TRUE, rep |-> Take(src, 40), magic |-> Drop(src, 40)]

\* a footer whose magic is not looked at
magic_matches_any(magic) ==
    TRUE

\* footer.magic == TABLE_MAGIC_NUMBER
magic_matches(magic) ==
    magic = TABLE_MAGIC_NUMBER

\* Footer::decode_from: Ok(Footer) as <<metaindex_handle, index_handle>>, each
\* <<offset, size>>, or Corruption
Footer_decode_from(src) ==
    LET footer == FooterDecoder_read_from(src)
        m      == BlockHandle_decode_from(footer.rep)
        x      == BlockHandle_decode_from(Drop(footer.rep, m.bytes))
    IN  IF ~footer.some THEN Res("Corruption", <<>>)
        ELSE IF ~magic_matches(footer.magic) THEN Res("Corruption", <<>>)
        ELSE IF m.status # "Ok" THEN Res("Corruption", <<>>)
        ELSE IF x.status # "Ok" THEN Res("Corruption", <<>>)
        ELSE Res("Ok", <<<<m.offset, m.size>>, <<x.offset, x.size>>>>)

(***************************************************************************)
(* Specification SpecTable: a memtable is filled, serialised into a file,  *)
(* and the file is opened as a table (src/src/bin/espikey-tool.rs); footers *)
(* of any shape are decoded.                                               *)
(***************************************************************************)

MaxTableOps == 3

\* "key0", "key1", "key2"
TableKeys ==
    {FromList(<<107, 101, 121, 48>>), FromList(<<107, 101, 121, 49>>),
     FromList(<<107, 101, 121, 50>>)}

\* "value0", "value2"
TableValues ==
    {FromList(<<118, 97, 108, 117, 101, 48>>), FromList(<<118, 97, 108, 117, 101, 50>>)}

\* the varint64 bytes of a value below 2^28
Varint64Bytes(v) ==
    IF v < 128 THEN FromList(<<v>>)
    ELSE IF v < 16384 THEN FromList(<<128 + (v % 128), v \div 128>>)
    ELSE IF v < 2097152 THEN FromList(<<128 + (v % 128), 128 + ((v \div 128) % 128), v \div 16384>>)
    ELSE FromList(<<128 + (v % 128), 128 + ((v \div 128) % 128),
                    128 + ((v \div 16384) % 128), v \div 2097152>>)

\* handle fields tried in footers: one, two and four varint bytes
HandleFields == {0, 300, 3000000}

\* in place of a metaindex offset: forty continuation bytes, no handle at all
Unterminated == -1

\* what follows the two handles up to byte 40: zero padding, or bytes that are
\* all continuation bytes
Paddings == {0, 255}

\* trailers tried: the magic, the magic with its bytes reversed, the magic
\* with one bit flipped, zeroes
Trailers ==
    {TABLE_MAGIC_NUMBER,
     FromList(<<219, 71, 117, 36, 139, 128, 251, 87>>),
     FromList(<<86, 251, 128, 139, 36, 117, 71, 219>>),
     Rep(0, 8)}

\* the lengths of the slices handed to Footer::decode_from, as a change to 48:
\* bytes cut from the front, or zero bytes put in front
LengthChanges == {-48, -8, -1, 0, 1}

\* a footer image: two handles, padding, trailer, then the length change
FooterImage(mo, ms, xo, xs, pad, trailer, change) ==
    LET handles == Cat(Cat(Varint64Bytes(IF mo = Unterminated THEN 0 ELSE mo), Varint64Bytes(ms)),
                       Cat(Varint64Bytes(xo), Varint64Bytes(xs)))
        rep     == IF mo = Unterminated THEN Rep(255, 40)
                   ELSE Cat(handles, Rep(pad, 40 - BLen(handles)))
        whole   == Cat(rep, trailer)
    IN  IF change >= 0 THEN Cat(Rep(0, change), whole) ELSE Drop(whole, -change)

InitTable ==
    /\ mem_table = MemTable_default
    /\ sequence = 0
    /\ wb = WriteBatch_new
    /\ file = <<>>
    /\ block_offset = 0
    /\ reader = Reader_new
    /\ lock = RwLock_new
    /\ builder = NoBlock
    /\ block_iter = NoBlock
    /\ pc = "memtable"
    /\ call = [op |-> "none", src |-> <<>>]
    /\ result = Res("Ok", <<>>)
    /\ hist = [ops |-> 0, expect |-> <<>>]

\* memtable.set(key, value)
Table_set(key, value) ==
    /\ pc = "memtable"
    /\ hist.ops < MaxTableOps
    /\ mem_table' = MemTable_set(mem_table, key, value)
    /\ call' = [op |-> "set", src |-> <<>>]
    /\ result' = Res("Ok", <<>>)
    /\ hist' = [hist EXCEPT !.ops = @ + 1]
    /\ UNCHANGED <<sequence, wb, file, block_offset, reader, lock, builder, block_iter, pc>>

\* memtable.delete(key)
Table_delete(key) ==
    /\ pc = "memtable"
    /\ hist.ops < MaxTableOps
    /\ mem_table' = MemTable_delete(mem_table, key)
    /\ call' = [op |-> "delete", src |-> <<>>]
    /\ result' = Res("Ok", <<>>)
    /\ hist' = [hist EXCEPT !.ops = @ + 1]
    /\ UNCHANGED <<sequence, wb, file, block_offset, reader, lock, builder, block_iter, pc>>

\* serialize_to_sstable(&mut file, memtable), the HashMap handing its keys
\* over in some order
Table_serialize ==
    /\ pc = "memtable"
    /\ \E order \in KeyOrders(DOMAIN mem_table.items) :
          file' = serialize_to_sstable(mem_table, order)
    /\ pc' = "written"
    /\ call' = [op |-> "serialize", src |-> <<>>]
    /\ result' = Res("Ok", <<>>)
    /\ UNCHANGED <<mem_table, sequence, wb, block_offset, reader, lock, builder, block_iter, hist>>

\* main of espikey-tool on a table: read the last FOOTER_ENCODED_LENGTH bytes
\* and decode them.  file_size - 48 underflows for a shorter file: a panic
\* where overflow is checked, else a read at an offset no file has.
Table_read_footer(underflow) ==
    /\ pc = "written"
    /\ pc' = "opened"
    /\ IF BLen(file) < FOOTER_ENCODED_LENGTH
       THEN /\ call' = [op |-> "read_footer", src |-> <<>>]
            /\ result' = Res(underflow, <<>>)
       ELSE /\ call' = [op |-> "read_footer",
                        src |-> Drop(file, BLen(file) - FOOTER_ENCODED_LENGTH)]
            /\ result' = Footer_decode_from(Drop(file, BLen(file) - FOOTER_ENCODED_LENGTH))
    /\ UNCHANGED <<mem_table, sequence, wb, file, block_offset, reader, lock, builder, block_iter, hist>>

\* Footer::decode_from(src) for a footer image
Footer_decode(mo, ms, xo, xs, pad, trailer, change) ==
    /\ pc = "memtable"
    /\ hist.ops = 0
    /\ pc' = "decoded"
    /\ call' = [op |-> "decode_from", src |-> FooterImage(mo, ms, xo, xs, pad, trailer, change)]
    /\ result' = Footer_decode_from(FooterImage(mo, ms, xo, xs, pad, trailer, change))
    /\ hist' = [hist EXCEPT !.expect = [handles |-> <<<<U64(mo), U64(ms)>>, <<U64(xo), U64(xs)>>>>,
                                        pad |-> pad, trailer |-> trailer, change |-> change]]
    /\ UNCHANGED <<mem_table, sequence, wb, file, block_offset, reader, lock, builder, block_iter>>

NextTable ==
    \/ \E key \in TableKeys, value \in TableValues : Table_set(key, value)
    \/ \E key \in TableKeys : Table_delete(key)
    \/ Table_serialize
    \/ \E underflow \in {"Panic", "IOError"} : Table_read_footer(underflow)
    \/ \E mo \in HandleFields \cup {Unterminated}, ms \in HandleFields, xo \in HandleFields, xs \in HandleFields,
          pad \in Paddings, trailer \in Trailers, change \in LengthChanges :
          Footer_decode(mo, ms, xo, xs, pad, trailer, change)

SpecTable == InitTable /\ [][NextTable]_vars

\* the memtable of the table round-trip scenario
ScenarioS6 ==
    LET key0 == FromList(<<107, 101, 121, 48>>)
        key1 == FromList(<<107, 101, 121, 49>>)
        key2 == FromList(<<107, 101, 121, 50>>)
    IN  (key0 :> Value(FromList(<<118, 97, 108, 117, 101, 48>>)))
        @@ (key1 :> Deletion)
        @@ (key2 :> Value(FromList(<<118, 97, 108, 117, 101, 50>>)))

\* C15: the table serialize_to_sstable writes for (key0,value0),
\* (key1,tombstone), (key2,value2) can be opened: Footer::decode_from on its
\* last 48 bytes succeeds (and its handles lead to the index and data blocks
\* that hold the three entries).
C15_SerializedTableOpens ==
    (call.op = "read_footer" /\ mem_table.items = ScenarioS6) => result.status = "Ok"

\* the bytes of 0xdb4775248b80fb57, least significant first
LittleEndianMagic ==
    FromList(<<87, 251, 128, 139, 36, 117, 71, 219>>)

\* C16: Footer::decode_from succeeds only on 48 bytes that end in the
\* little-endian magic, and then returns the metaindex handle and the index
\* handle that the first 40 bytes encode; a slice of another length or with
\* another trailer is Corruption.
C16_FooterDecode ==
    call.op = "decode_from" =>
        /\ result.status \in {"Ok", "Corruption"}
        /\ result.status = "Ok" =>
              /\ BLen(call.src) = 48
              /\ Drop(call.src, 40) = LittleEndianMagic
              /\ result.value = hist.expect.handles
        /\ (BLen(call.src) # 48 \/ Drop(call.src, BLen(call.src) - 8) # LittleEndianMagic)
              => result.status = "Corruption"

\* a footer of 48 bytes with the magic is decoded: handles of two, four and
\* one varint bytes, followed by bytes that are not zero
C16_Witness ==
    /\ call.op = "decode_from"
    /\ result = Res("Ok", <<<<U64(300), U64(3000000)>>, <<U64(0), U64(300)>>>>)
    /\ hist.expect.pad = 255
    /\ BLen(call.src) = 48

(***************************************************************************)
(* VersionEdit (src/src/version_edit.rs)                                   *)
(***************************************************************************)

NUM_LEVELS == 7

\* TryFrom<u8> for Tag
Tag_try_from_u8(value) ==
    CASE value = 1 -> "Comparator"
      [] value = 2 -> "LogNumber"
      [] value = 3 -> "NextFileNumber"
      [] value = 4 -> "LastSequence"
      [] value = 5 -> "CompactPointer"
      [] value = 6 -> "DeletedFile"
      [] value = 7 -> "NewFile"
      [] value = 9 -> "PrevLogNumber"
      [] OTHER     -> "Corruption"

\* TryFrom<u32> for Tag: (value as u8).try_into()
Tag_try_from_u32(value) ==
    Tag_try_from_u8(value % 256)

\* the Option form of decode_length_prefixed_slice that version_edit.rs
\* imports: the slice and the bytes read, or None when the bytes fall short
decode_length_prefixed_slice_option(data) ==
    LET d == decode_varint32_option(data)
    IN  IF ~d.some \/ d.bytes + d.value > BLen(data)
        THEN [some |-> FALSE, value |-> <<>>, bytes |-> 0]
        ELSE [some |-> TRUE,
              value |-> Slice(data, d.bytes, d.bytes + d.value),
              bytes |-> d.bytes + d.value]

\* InternalKey::decode_from: the user key and the 8-byte trailer of sequence
\* and type; a slice shorter than the trailer cannot be split
InternalKey_decode_from(slice) ==
    IF BLen(slice) < 8 THEN [panic |-> TRUE, user_key |-> <<>>, trailer |-> <<>>]
    ELSE [panic |-> FALSE, user_key |-> Take(slice, BLen(slice) - 8),
          trailer |-> Drop(slice, BLen(slice) - 8)]

\* get_level with the test level > NUM_LEVELS
get_level_inclusive(src, pos) ==
    LET d == decode_varint32_option(Drop(src, pos))
    IN  IF ~d.some THEN [status |-> "Panic", level |-> 0, pos |-> pos]
        ELSE IF d.value > NUM_LEVELS
        THEN [status |-> "Corruption", level |-> 0, pos |-> pos + d.bytes]
        ELSE [status |-> "Ok", level |-> d.value, pos |-> pos + d.bytes]

\* get_level: unwraps the varint32, Corruption for a level of NUM_LEVELS or more
get_level(src, pos) ==
    LET d == decode_varint32_option(Drop(src, pos))
    IN  IF ~d.some THEN [status |-> "Panic", level |-> 0, pos |-> pos]
        ELSE IF d.value >= NUM_LEVELS
        THEN [status |-> "Corruption", level |-> 0, pos |-> pos + d.bytes]
        ELSE [status |-> "Ok", level |-> d.value, pos |-> pos + d.bytes]

\* the locals of VersionEdit::decode_from before its loop
VersionEdit_empty ==
    [comparator |-> <<>>, log_number |-> <<>>, prev_log_number |-> <<>>,
     next_file_number |-> <<>>, last_sequence |-> <<>>,
     compact_pointers |-> <<>>, deleted_files |-> {}, new_files |-> <<>>]

NoField(status, edit) ==
    [status |-> status, pos |-> 0, edit |-> edit]

\* the arms that read one varint64: LogNumber, PrevLogNumber, NextFileNumber,
\* LastSequence
decode_number(src, pos, field, edit) ==
    LET n == decode_varint64(Drop(src, pos))
    IN  IF ~n.some THEN NoField("Corruption", edit)
        ELSE [status |-> "Ok", pos |-> pos + n.bytes,
              edit |-> [edit EXCEPT ![field] = <<n.value>>]]

\* the arm of Tag::Comparator
decode_comparator(src, pos, edit) ==
    LET c == decode_length_prefixed_slice_option(Drop(src, pos))
    IN  IF ~c.some THEN NoField("Corruption", edit)
        ELSE [status |-> "Ok", pos |-> pos + c.bytes,
              edit |-> [edit EXCEPT !.comparator = <<c.value>>]]

\* the arm of Tag::CompactPointer
decode_compact_pointer(src, pos, edit) ==
    LET l == get_level(src, pos)
        k == decode_length_prefixed_slice_option(Drop(src, l.pos))
        ikey == InternalKey_decode_from(k.value)
    IN  IF l.status # "Ok" THEN NoField(l.status, edit)
        ELSE IF ~k.some THEN NoField("Corruption", edit)
        ELSE IF ikey.panic THEN NoField("Panic", edit)
        ELSE [status |-> "Ok", pos |-> l.pos + k.bytes,
              edit |-> [edit EXCEPT !.compact_pointers = Append(@, <<l.level, ikey>>)]]

\* the arm of Tag::DeletedFile
decode_deleted_file(src, pos, edit) ==
    LET l == get_level(src, pos)
        n == decode_varint64(Drop(src, l.pos))
    IN  IF l.status # "Ok" THEN NoField(l.status, edit)
        ELSE IF ~n.some THEN NoField("Corruption", edit)
        ELSE [status |-> "Ok", pos |-> l.pos + n.bytes,
              edit |-> [edit EXCEPT !.deleted_files = @ \cup {<<l.level, n.value>>}]]

\* the arm of Tag::NewFile
decode_new_file(src, pos, edit) ==
    LET l    == get_level(src, pos)
        n    == decode_varint64(Drop(src, l.pos))
        p1   == l.pos + n.bytes
        size == decode_varint64(Drop(src, p1))
        p2   == p1 + size.bytes
        sm   == decode_length_prefixed_slice_option(Drop(src, p2))
        p3   == p2 + sm.bytes
        lg   == decode_length_prefixed_slice_option(Drop(src, p3))
        smallest == InternalKey_decode_from(sm.value)
        largest  == InternalKey_decode_from(lg.value)
    IN  IF l.status # "Ok" THEN NoField(l.status, edit)
        ELSE IF ~n.some THEN NoField("Corruption", edit)
        ELSE IF ~size.some THEN NoField("Corruption", edit)
        ELSE IF ~sm.some THEN NoField("Corruption", edit)
        ELSE IF ~lg.some THEN NoField("Corruption", edit)
        ELSE IF smallest.panic \/ largest.panic THEN NoField("Panic", edit)
        ELSE [status |-> "Ok", pos |-> p3 + lg.bytes,
              edit |-> [edit EXCEPT !.new_files =
                           Append(@, <<l.level, [number |-> n.value, file_size |-> size.value,
                                                 smallest |-> smallest, largest |-> largest]>>)]]

\* match tag.try_into()? { ... }
decode_field(src, pos, tag, edit) ==
    CASE tag = "Corruption"     -> NoField("Corruption", edit)
      [] tag = "Comparator"     -> decode_comparator(src, pos, edit)
      [] tag = "LogNumber"      -> decode_number(src, pos, "log_number", edit)
      [] tag = "PrevLogNumber"  -> decode_number(src, pos, "prev_log_number", edit)
      [] tag = "NextFileNumber" -> decode_number(src, pos, "next_file_number", edit)
      [] tag = "LastSequence"   -> decode_number(src, pos, "last_sequence", edit)
      [] tag = "CompactPointer" -> decode_compact_pointer(src, pos, edit)
      [] tag = "DeletedFile"    -> decode_deleted_file(src, pos, edit)
      [] tag = "NewFile"        -> decode_new_file(src, pos, edit)

RECURSIVE VersionEdit_decode_loop(_, _, _)
\* while pos < src.len() { ... }
VersionEdit_decode_loop(src, pos, edit) ==
    IF pos >= BLen(src) THEN Res("Ok", edit)
    ELSE LET t == decode_varint32_option(Drop(src, pos))
             f == decode_field(src, pos + t.bytes, Tag_try_from_u32(t.value), edit)
         IN  IF ~t.some THEN Res("Corruption", <<>>)
             ELSE IF f.status # "Ok" THEN Res(f.status, <<>>)
             ELSE VersionEdit_decode_loop(src, f.pos, f.edit)

\* VersionEdit::decode_from
VersionEdit_decode_from(src) ==
    VersionEdit_decode_loop(src, 0, VersionEdit_empty)

(***************************************************************************)
(* Specification SpecEdit: fields of any tag are put one after another     *)
(* into a record and the record is decoded.                                *)
(***************************************************************************)

MaxFields == 2

\* tags tried: the eight known ones, the unknown ones below 128, tags of two
\* and three varint bytes, among them tags whose low byte is a known tag
EditTags ==
    {0, 1, 2, 3, 4, 5, 6, 7, 8, 9, 127, 128, 256, 257, 263, 65538}

\* payloads tried: nothing, a one-byte varint, a two-byte varint, the
\* length-prefixed slice "abc", a level and a number, a level out of range
\* and a number, a level and a length-prefixed key of nine bytes, a level
\* with a file number, a file size and two length-prefixed keys of eight bytes
EditPayloads ==
    {<<>>,
     FromList(<<5>>),
     FromList(<<172, 2>>),
     FromList(<<3, 97, 98, 99>>),
     FromList(<<1, 42>>),
     FromList(<<7, 42>>),
     Cat(FromList(<<2, 9, 107>>), Rep(0, 8)),
     Cat(FromList(<<3, 1, 1, 8>>), Cat(Rep(0, 8), Cat(FromList(<<8>>), Rep(0, 8))))}

InitEdit ==
    /\ mem_table = MemTable_default
    /\ sequence = 0
    /\ wb = WriteBatch_new
    /\ file = <<>>
    /\ block_offset = 0
    /\ reader = Reader_new
    /\ lock = RwLock_new
    /\ builder = NoBlock
    /\ block_iter = NoBlock
    /\ pc = "encoding"
    /\ call = [op |-> "none", src |-> <<>>]
    /\ result = Res("Ok", <<>>)
    /\ hist = [tags |-> <<>>, payloads |-> <<>>]

\* one more field in the record: varint32(tag) then the payload
Edit_put_field(tag, payload) ==
    /\ pc = "encoding"
    /\ Len(hist.tags) < MaxFields
    /\ file' = Cat(put_varint32(file, tag).buf, payload)
    /\ hist' = [tags |-> Append(hist.tags, tag), payloads |-> Append(hist.payloads, payload)]
    /\ call' = [op |-> "put_field", src |-> <<>>]
    /\ UNCHANGED <<mem_table, sequence, wb, block_offset, reader, lock, builder, block_iter, pc, result>>

\* VersionEdit::decode_from(&record)
Edit_decode ==
    /\ pc = "encoding"
    /\ pc' = "decoded"
    /\ call' = [op |-> "decode_from", src |-> file]
    /\ result' = VersionEdit_decode_from(file)
    /\ UNCHANGED <<mem_table, sequence, wb, file, block_offset, reader, lock, builder, block_iter, hist>>

NextEdit ==
    \/ \E tag \in EditTags, payload \in EditPayloads : Edit_put_field(tag, payload)
    \/ Edit_decode

SpecEdit == InitEdit /\ [][NextEdit]_vars

KnownTags == {1, 2, 3, 4, 5, 6, 7, 9}

\* C17: a record whose first field carries a tag other than 1, 2, 3, 4, 5,
\* 6, 7 and 9 is decoded to Corruption, whatever varint32 the tag is.
C17_UnknownTagIsCorruption ==
    (call.op = "decode_from" /\ hist.tags # <<>> /\ hist.tags[1] \notin KnownTags)
        => result.status = "Corruption"

(***************************************************************************)
(* Specification SpecVarint: u32 values are written one after another by   *)
(* put_varint32 and decoded again from where each begins.                  *)
(***************************************************************************)

MaxPuts == 2

\* values tried: the ends of each encoded length, and values of 2^31 and more
\* (0x80000000, 0x80000001, 0xf0000000, 0xffffff80, 0xffffffff) as 32-bit
\* patterns
VarintValues ==
    {0, 1, 127, 128, 129, 255, 300, 16383, 16384, 2097151, 2097152,
     268435455, 268435456, 1879048192, 2147483647,
     -2147483647 - 1, -2147483647, -268435456, -128, -1}

InitVarint ==
    /\ mem_table = MemTable_default
    /\ sequence = 0
    /\ wb = WriteBatch_new
    /\ file = <<>>
    /\ block_offset = 0
    /\ reader = Reader_new
    /\ lock = RwLock_new
    /\ builder = NoBlock
    /\ block_iter = NoBlock
    /\ pc = "idle"
    /\ call = [op |-> "none", value |-> 0]
    /\ result = Res("Ok", <<>>)
    /\ hist = [values |-> <<>>, starts |-> <<>>, cnts |-> <<>>, decoded |-> <<>>]

\* put_varint32(&mut buf, value)
Varint_put(value) ==
    /\ Len(hist.values) < MaxPuts
    /\ hist.decoded = <<>>
    /\ file' = put_varint32(file, value).buf
    /\ call' = [op |-> "put_varint32", value |-> value]
    /\ result' = Res("Ok", put_varint32(file, value).cnt)
    /\ hist' = [hist EXCEPT !.values = Append(@, value),
                            !.starts = Append(@, BLen(file)),
                            !.cnts = Append(@, put_varint32(file, value).cnt)]
    /\ UNCHANGED <<mem_table, sequence, wb, block_offset, reader, lock, builder, block_iter, pc>>

\* decode_varint32(&buf[start..]) at the start of the next value written
Varint_decode ==
    /\ Len(hist.decoded) < Len(hist.values)
    /\ LET start == hist.starts[Len(hist.decoded) + 1]
           d     == decode_varint32(Drop(file, start))
       IN  /\ call' = [op |-> "decode_varint32", value |-> start]
           /\ result' = IF d.panic THEN Res("Panic", <<>>) ELSE Res("Ok", <<d.value, d.offset>>)
           /\ hist' = [hist EXCEPT !.decoded = Append(@, result')]
    /\ UNCHANGED <<mem_table, sequence, wb, file, block_offset, reader, lock, builder, block_iter, pc>>

NextVarint ==
    \/ \E value \in VarintValues : Varint_put(value)
    \/ Varint_decode

SpecVarint == InitVarint /\ [][NextVarint]_vars

\* the bytes the i-th put has added to the buffer
BytesOfPut(i) ==
    Slice(file, hist.starts[i],
          IF i < Len(hist.starts) THEN hist.starts[i + 1] ELSE BLen(file))

\* C20: decode_varint32 on the bytes put_varint32 wrote for v returns v and
\* the number n of those bytes, which put_varint32 returned, 1 <= n <= 5; a
\* value below 128 is the one byte v, and 128 is 0x80 0x01.
C20_VarintRoundTrip ==
    /\ \A i \in 1..Len(hist.decoded) :
          hist.decoded[i] = Res("Ok", <<hist.values[i], BLen(BytesOfPut(i))>>)
    /\ \A i \in 1..Len(hist.values) :
          /\ hist.cnts[i] = BLen(BytesOfPut(i))
          /\ hist.cnts[i] \in 1..5
          /\ (hist.values[i] >= 0 /\ hist.values[i] < 128)
                => BytesOfPut(i) = FromList(<<hist.values[i]>>)
          /\ hist.values[i] = 128 => BytesOfPut(i) = FromList(<<128, 1>>)

\* 0xffffffff was written after 128, in five bytes, and both were decoded
C20_Witness ==
    /\ hist.values = <<128, -1>>
    /\ Len(hist.decoded) = 2
    /\ BytesOfPut(2) = FromList(<<255, 255, 255, 255, 15>>)
    /\ hist.decoded[2] = Res("Ok", <<-1, 5>>)

(***************************************************************************)
(* Specification SpecSlice: byte strings are written one after another by  *)
(* put_length_prefixed_slice and decoded again from where each begins.     *)
(***************************************************************************)

MaxSlices == 2

\* slices tried: the empty one, "hello", one byte above 127, and slices whose
\* lengths are the ends of the one-, two- and three-byte length prefixes
SliceInputs ==
    {<<>>, FromList(<<104, 101, 108, 108, 111>>), FromList(<<200>>),
     Rep(97, 127), Rep(97, 128), Cat(Rep(98, 299), Rep(0, 1)),
     Rep(99, 16383), Rep(99, 16384), Rep(100, 70000)}

InitSlice ==
    /\ mem_table = MemTable_default
    /\ sequence = 0
    /\ wb = WriteBatch_new
    /\ file = <<>>
    /\ block_offset = 0
    /\ reader = Reader_new
    /\ lock = RwLock_new
    /\ builder = NoBlock
    /\ block_iter = NoBlock
    /\ pc = "idle"
    /\ call = [op |-> "none", start |-> 0]
    /\ result = Res("Ok", <<>>)
    /\ hist = [slices |-> <<>>, starts |-> <<>>, decoded |-> <<>>]

\* put_length_prefixed_slice(&mut buf, data)
Slice_put(data) ==
    /\ Len(hist.slices) < MaxSlices
    /\ hist.decoded = <<>>
    /\ file' = put_length_prefixed_slice(file, data)
    /\ call' = [op |-> "put_length_prefixed_slice", start |-> BLen(file)]
    /\ result' = Res("Ok", <<>>)
    /\ hist' = [hist EXCEPT !.slices = Append(@, data), !.starts = Append(@, BLen(file))]
    /\ UNCHANGED <<mem_table, sequence, wb, block_offset, reader, lock, builder, block_iter, pc>>

\* decode_length_prefixed_slice(&buf[start..]) at the start of the next slice
\* written
Slice_decode ==
    /\ Len(hist.decoded) < Len(hist.slices)
    /\ LET start == hist.starts[Len(hist.decoded) + 1]
           d     == decode_length_prefixed_slice(Drop(file, start))
       IN  /\ call' = [op |-> "decode_length_prefixed_slice", start |-> start]
           /\ result' = IF d.panic THEN Res("Panic", <<>>) ELSE Res("Ok", <<d.value, d.offset>>)
           /\ hist' = [hist EXCEPT !.decoded = Append(@, result')]
    /\ UNCHANGED <<mem_table, sequence, wb, file, block_offset, reader, lock, builder, block_iter, pc>>

NextSlice ==
    \/ \E data \in SliceInputs : Slice_put(data)
    \/ Slice_decode

SpecSlice == InitSlice /\ [][NextSlice]_vars

\* the number of bytes of the varint32 of n, for n below 2^28
VarintLen(n) ==
    IF n < 128 THEN 1 ELSE IF n < 16384 THEN 2 ELSE IF n < 2097152 THEN 3 ELSE 4

\* C21 (as claimed): decode_length_prefixed_slice on what
\* put_length_prefixed_slice wrote for s returns s and
\* 1 + varintlen(|s|) + |s|.
C21_AsClaimed ==
    \A i \in 1..Len(hist.decoded) :
        hist.decoded[i] = Res("Ok", <<hist.slices[i],
                                      1 + VarintLen(BLen(hist.slices[i])) + BLen(hist.slices[i])>>)

\* C21: decode_length_prefixed_slice on what put_length_prefixed_slice wrote
\* for s returns s and the number of bytes written, varintlen(|s|) + |s|.
C21_SliceRoundTrip ==
    \A i \in 1..Len(hist.decoded) :
        hist.decoded[i] = Res("Ok", <<hist.slices[i],
                                      VarintLen(BLen(hist.slices[i])) + BLen(hist.slices[i])>>)

\* a slice of 128 bytes, with a length prefix of two bytes, was decoded after
\* "hello"
C21_Witness ==
    /\ Len(hist.decoded) = 2
    /\ hist.slices = <<FromList(<<104, 101, 108, 108, 111>>), Rep(97, 128)>>
    /\ hist.decoded[1] = Res("Ok", <<FromList(<<104, 101, 108, 108, 111>>), 6>>)
    /\ hist.decoded[2] = Res("Ok", <<Rep(97, 128), 130>>)

(***************************************************************************)
(* The reader on a file of fragments: any sequence of fragments of the     *)
(* four record types, each with the checksum of its payload or another     *)
(* one, read by a new Reader                                               *)
(***************************************************************************)

\* Fragments in one file.
MaxFrags == 3

FragTypes == {Full, First, Middle, Last}

\* Payloads of a fragment (one byte, two, and what fills a block), and whether
\* the stored checksum is the payload's
FragInputs ==
    {<<FromList(<<97>>), TRUE>>, <<FromList(<<98, 99>>), TRUE>>,
     <<FromList(<<97>>), FALSE>>, <<Rep(100, BLOCK_SIZE - HEADER_SIZE), TRUE>>}

InitFrag ==
    /\ mem_table = MemTable_default
    /\ sequence = 0
    /\ wb = WriteBatch_new
    /\ file = <<>>
    /\ block_offset = 0
    /\ reader = Reader_new
    /\ lock = RwLock_new
    /\ builder = NoBlock
    /\ block_iter = NoBlock
    /\ pc = "writing"
    /\ call = NoCall
    /\ result = Res("Ok", <<>>)
    /\ hist = [frags |-> <<>>, reads |-> <<>>]

\* the file gains one fragment inside a block: WalHeader {checksum, length,
\* record_type} and the payload
Frag_put(record_type, message, checksum_matches) ==
    /\ pc = "writing"
    /\ Len(hist.frags) < MaxFrags
    /\ (BLen(file) % BLOCK_SIZE) + HEADER_SIZE + BLen(message) <= BLOCK_SIZE
    /\ LET checksum == IF checksum_matches THEN crc32fast_hash(message)
                       ELSE crc32fast_hash(message) + 1
       IN  /\ file' = Cat(Cat(file, WalHeader_bytes(checksum, BLen(message), record_type)),
                          message)
           /\ hist' = [hist EXCEPT !.frags =
                          Append(@, [record_type |-> record_type, message |-> message,
                                     checksum |-> checksum,
                                     end |-> BLen(file) + HEADER_SIZE + BLen(message)])]
    /\ UNCHANGED <<mem_table, sequence, wb, block_offset, reader, lock, builder, block_iter, pc, call, result>>

\* Reader::new(file) on the file as it is now
Frag_open ==
    /\ pc = "writing"
    /\ pc' = "reading"
    /\ reader' = Reader_new
    /\ UNCHANGED <<mem_table, sequence, wb, file, block_offset, lock, builder, block_iter, call, result, hist>>

\* the fragments that end at or before position q of the file
FragsUpTo(q) ==
    Cardinality({k \in 1..Len(hist.frags) : hist.frags[k].end <= q})

\* reader.read(); the history keeps the answer and the number of fragments the
\* reader has passed (those before its position in the file)
Frag_read ==
    /\ pc = "reading"
    /\ Nones(hist.reads) <= MaxReadsPastEnd
    /\ LET r == Reader_read(reader, file, <<>>)
           q == r.rd.pos - r.rd.buffer_length + r.rd.buffer_offset
       IN  /\ reader' = r.rd
           /\ result' = Res(r.status, r.value)
           /\ hist' = [hist EXCEPT !.reads =
                          Append(@, [status |-> r.status, value |-> r.value,
                                     passed |-> FragsUpTo(q)])]
    /\ UNCHANGED <<mem_table, sequence, wb, file, block_offset, lock, builder, block_iter, pc, call>>

NextFrag ==
    \/ \E t \in FragTypes, m \in FragInputs : Frag_put(t, m[1], m[2])
    \/ Frag_open
    \/ Frag_read

SpecFrag == InitFrag /\ [][NextFrag]_vars

\* the fragments the i-th read went through: after those of the reads before it
FirstFrag(i) ==
    IF i = 1 THEN 1 ELSE hist.reads[i - 1].passed + 1

LastFrag(i) ==
    hist.reads[i].passed

RECURSIVE ConcatFrags(_, _)
\* the payloads of fragments a..b, one after another
ConcatFrags(a, b) ==
    IF a > b THEN <<>>
    ELSE Cat(hist.frags[a].message, ConcatFrags(a + 1, b))

\* fragments a..b are one record: a Full, or a First, Middles and a Last
IsRecord(a, b) ==
    \/ a = b /\ hist.frags[a].record_type = Full
    \/ /\ a < b
       /\ hist.frags[a].record_type = First
       /\ hist.frags[b].record_type = Last
       /\ \A k \in (a + 1)..(b - 1) : hist.frags[k].record_type = Middle

\* C22: a read returns a payload only for a Full fragment it meets first
\* (outside a record) or for a Last that closes the record its First opened,
\* and the payload is that of the Full, or those of First, Middles and Last one
\* after another; a read that meets a Middle or a Last first answers Corruption
\* having passed that fragment only, and the read after it takes the next
\* fragment as one met outside a record.
C22_ReaderStateMachine ==
    \A i \in 1..Len(hist.reads) :
        LET a == FirstFrag(i)
            b == LastFrag(i)
        IN  /\ hist.reads[i].status = "Some" =>
                  /\ a <= b
                  /\ IsRecord(a, b)
                  /\ hist.reads[i].value = ConcatFrags(a, b)
            /\ (a <= Len(hist.frags) /\ hist.frags[a].record_type \in {Middle, Last}) =>
                  /\ hist.reads[i].status = "Corruption"
                  /\ b = a
                  /\ (i < Len(hist.reads) /\ a < Len(hist.frags)) =>
                        CASE hist.frags[a + 1].record_type = Full ->
                                 /\ hist.reads[i + 1].status = "Some"
                                 /\ hist.reads[i + 1].value = hist.frags[a + 1].message
                          [] hist.frags[a + 1].record_type = First ->
                                 hist.reads[i + 1].passed > a + 1
                                 \/ hist.reads[i + 1].status = "None"
                          [] OTHER ->
                                 hist.reads[i + 1].status = "Corruption"

\* a Last met outside a record, then a First and a Last: Corruption, then the
\* two payloads as one
C22_Witness ==
    /\ Len(hist.frags) = 3
    /\ hist.frags[1].record_type = Last
    /\ hist.frags[2].record_type = First
    /\ hist.frags[3].record_type = Last
    /\ hist.frags[2].message # hist.frags[3].message
    /\ Len(hist.reads) = 2
    /\ hist.reads[1] = [status |-> "Corruption", value |-> <<>>, passed |-> 1]
    /\ hist.reads[2] = [status |-> "Some", passed |-> 3,
                        value |-> Cat(hist.frags[2].message, hist.frags[3].message)]

\* fragments a..b are a First, Middles, and then a First or a Full: the
\* fragment b is met inside the record that a opened
InsideThenFirstOrFull(a, b) ==
    /\ a < b
    /\ b <= Len(hist.frags)
    /\ hist.frags[a].record_type = First
    /\ \A k \in (a + 1)..(b - 1) : hist.frags[k].record_type = Middle
    /\ hist.frags[b].record_type \in {First, Full}

\* C23: a read that meets a First or a Full inside a fragmented record answers
\* Corruption and the reader remains inside the record: the read after it
\* takes the fragment that follows as continuing a record (a Last closes it
\* and a payload is returned, a Middle is passed, a First or a Full is
\* Corruption again).
C23_StaysInsideAfterCorruption ==
    \A i \in 1..Len(hist.reads) :
        LET a == FirstFrag(i)
            b == LastFrag(i)
        IN  InsideThenFirstOrFull(a, b) =>
               /\ hist.reads[i].status = "Corruption"
               /\ (i < Len(hist.reads) /\ b < Len(hist.frags)) =>
                     CASE hist.frags[b + 1].record_type = Last ->
                              hist.reads[i + 1].status = "Some"
                       [] hist.frags[b + 1].record_type = Middle ->
                              hist.reads[i + 1].passed > b + 1
                              \/ hist.reads[i + 1].status = "None"
                       [] OTHER ->
                              /\ hist.reads[i + 1].status = "Corruption"
                              /\ hist.reads[i + 1].passed = b + 1

\* C28: a read that passes a fragment whose stored checksum is not the
\* checksum of its payload answers Corruption there, and no payload with that
\* fragment's bytes is returned.
C28_ChecksumMismatchIsCorruption ==
    \A i \in 1..Len(hist.reads) :
        \A k \in FirstFrag(i)..LastFrag(i) :
            hist.frags[k].checksum # crc32fast_hash(hist.frags[k].message) =>
                /\ hist.reads[i].status = "Corruption"
                /\ LastFrag(i) = k

\* fragments a.. to the end of the file are a First and Middles: a record
\* that was opened and is not closed
OpenRecordToEnd(a) ==
    /\ a <= Len(hist.frags)
    /\ hist.frags[a].record_type = First
    /\ \A k \in (a + 1)..Len(hist.frags) : hist.frags[k].record_type = Middle

\* C27: a read that finds the end of the file outside a record (no fragment
\* left) answers Ok(None); a read that finds it inside a record (a First and
\* Middles left, no Last) answers Ok(None) too, with no payload and no error,
\* having passed those fragments.
C27_EofIsNone ==
    \A i \in 1..Len(hist.reads) :
        LET a == FirstFrag(i)
        IN  /\ a > Len(hist.frags) =>
                  hist.reads[i] = [status |-> "None", value |-> <<>>,
                                   passed |-> Len(hist.frags)]
            /\ OpenRecordToEnd(a) =>
                  hist.reads[i] = [status |-> "None", value |-> <<>>,
                                   passed |-> Len(hist.frags)]

\* a Full read, then a First that ends at a block boundary and a Middle with
\* no Last: the second read finds the end of the file inside the record, the
\* third outside
C27_Witness ==
    /\ Len(hist.frags) = 3
    /\ hist.frags[1].record_type = Full
    /\ hist.frags[1].message = Rep(100, BLOCK_SIZE - HEADER_SIZE)
    /\ hist.frags[2].record_type = First
    /\ hist.frags[2].message = Rep(100, BLOCK_SIZE - HEADER_SIZE)
    /\ hist.frags[3].record_type = Middle
    /\ Len(hist.reads) = 3
    /\ hist.reads[1].status = "Some"
    /\ hist.reads[2] = [status |-> "None", value |-> <<>>, passed |-> 3]
    /\ hist.reads[3] = [status |-> "None", value |-> <<>>, passed |-> 3]

(***************************************************************************)
(* Claims about the fragments Writer::append writes (SpecLog)              *)
(***************************************************************************)

RECURSIVE Flatten(_)
\* the fragments of all appends, in the order written
Flatten(written) ==
    IF written = <<>> THEN <<>> ELSE Head(written) \o Flatten(Tail(written))

\* the position after a fragment: its header, then its payload
FragEnd(e) ==
    e.at + HEADER_SIZE + e.length

\* C24 (as claimed): between appends and after every fragment write,
\* block_offset is in [0, 32768).
C24_AsClaimed ==
    /\ 0 <= block_offset
    /\ block_offset < BLOCK_SIZE
    /\ \A i \in 1..Len(hist.written) : \A j \in 1..Len(hist.written[i]) :
          /\ 0 <= hist.written[i][j].block_offset
          /\ hist.written[i][j].block_offset < BLOCK_SIZE

\* C24: between appends and after every fragment write, block_offset is in
\* [0, 32768] and is the number of bytes written to the block the file ends
\* in: it is 32768 exactly when a fragment has just ended at a block boundary.
C24_BlockOffset ==
    /\ 0 <= block_offset
    /\ block_offset <= BLOCK_SIZE
    /\ hist.damage = "none" =>
          /\ (BLen(file) - block_offset) % BLOCK_SIZE = 0
          /\ block_offset = BLOCK_SIZE <=> (BLen(file) > 0 /\ BLen(file) % BLOCK_SIZE = 0)
    /\ \A i \in 1..Len(hist.written) : \A j \in 1..Len(hist.written[i]) :
          LET e == hist.written[i][j]
          IN  /\ HEADER_SIZE <= e.block_offset
              /\ e.block_offset <= BLOCK_SIZE
              /\ (FragEnd(e) - e.block_offset) % BLOCK_SIZE = 0

\* a payload that fills the first block left block_offset at 32768, and the
\* append after it started the next block
C24_Witness ==
    /\ hist.damage = "none"
    /\ hist.appended = <<Payload(BLOCK_SIZE - HEADER_SIZE), Payload(1)>>
    /\ hist.written[1][1].block_offset = BLOCK_SIZE
    /\ hist.written[2][1].at = BLOCK_SIZE
    /\ block_offset = HEADER_SIZE + 1

\* C25: the fragments of a file follow one another, each after at most six
\* zero bytes: a fragment (header of 7 bytes, payload of at most 32761) lies
\* inside one block of 32768 bytes, its header holds its length and type, and
\* zero bytes come before it exactly when fewer than 7 bytes were left in the
\* block: they fill it, and the fragment starts the next block.
C25_FragmentsInsideBlocks ==
    hist.damage = "none" =>
        LET all == Flatten(hist.written)
        IN  /\ all # <<>> => FragEnd(all[Len(all)]) = BLen(file)
            /\ \A k \in 1..Len(all) :
                  LET e    == all[k]
                      pos  == IF k = 1 THEN 0 ELSE FragEnd(all[k - 1])
                      left == BLOCK_SIZE - (pos % BLOCK_SIZE)
                  IN  /\ e.at = pos + e.pad
                      /\ e.pad = IF left < HEADER_SIZE THEN left ELSE 0
                      /\ Slice(file, pos, e.at) = Rep(0, e.pad)
                      /\ e.pad > 0 => e.at % BLOCK_SIZE = 0
                      /\ 0 <= e.length
                      /\ e.length <= BLOCK_SIZE - HEADER_SIZE
                      /\ (e.at % BLOCK_SIZE) + HEADER_SIZE + e.length <= BLOCK_SIZE
                      /\ At(file, e.at + 4) + 256 * At(file, e.at + 5) = e.length
                      /\ At(file, e.at + 6) = e.record_type

\* a payload that left three bytes in the first block, then one byte: three
\* zero bytes, and the fragment at the start of the second block
C25_Witness ==
    /\ hist.damage = "none"
    /\ hist.appended = <<Payload(BLOCK_SIZE - HEADER_SIZE - 3), Payload(1)>>
    /\ hist.written[2] = <<[pad |-> 3, at |-> BLOCK_SIZE, record_type |-> Full,
                            length |-> 1, block_offset |-> HEADER_SIZE + 1]>>
    /\ Slice(file, BLOCK_SIZE - 3, BLOCK_SIZE) = Rep(0, 3)

RECURSIVE ConcatWritten(_, _)
\* the payloads in the file of fragments w, one after another
ConcatWritten(f, w) ==
    IF w = <<>> THEN <<>>
    ELSE Cat(Slice(f, Head(w).at + HEADER_SIZE, FragEnd(Head(w))),
             ConcatWritten(f, Tail(w)))

\* C26: every append, of any payload (the empty one too) and from any block
\* offset, writes one Full fragment, or a First, Middles and a Last; the
\* payloads of its fragments one after another are the payload appended; every
\* fragment but the last ends at a block boundary.
C26_AppendFragments ==
    hist.damage = "none" =>
        \A i \in 1..Len(hist.written) :
            LET w == hist.written[i]
                n == Len(w)
            IN  /\ n >= 1
                /\ n = 1 => w[1].record_type = Full
                /\ n > 1 =>
                      /\ w[1].record_type = First
                      /\ w[n].record_type = Last
                      /\ \A j \in 2..(n - 1) : w[j].record_type = Middle
                /\ ConcatWritten(file, w) = hist.appended[i]
                /\ \A j \in 1..(n - 1) : FragEnd(w[j]) % BLOCK_SIZE = 0

\* a payload of two blocks and a byte appended with exactly a header's room
\* left in the block: a First without payload, two Middles and a Last
C26_Witness ==
    /\ hist.damage = "none"
    /\ hist.appended = <<Payload(BLOCK_SIZE - 2 * HEADER_SIZE), Payload(2 * BLOCK_SIZE + 1)>>
    /\ Len(hist.written[2]) = 4
    /\ hist.written[2][1].length = 0
    /\ hist.written[2][1].record_type = First
    /\ hist.written[2][2].record_type = Middle
    /\ hist.written[2][4].record_type = Last
    /\ hist.written[2][4].length = 15

(***************************************************************************)
(* The payloads of tests::test_writer (src/src/log.rs), appended to an     *)
(* empty log in any order and read back                                    *)
(***************************************************************************)

\* Payloads appended in one run.
MaxTestAppends == 3

\* [1; 1000], [2; 97270], [3; 8000]
TestPayloads == {Rep(1, 1000), Rep(2, 97270), Rep(3, 8000)}

\* writer.append(&data).unwrap() of test_writer
TestWriter_append(message) ==
    /\ pc = "writing"
    /\ Len(hist.appended) < MaxTestAppends
    /\ LET w == Writer_append(file, block_offset, message, NoFault)
       IN  /\ file' = w.file
           /\ block_offset' = w.block_offset
           /\ result' = Res(w.status, <<>>)
           /\ hist' = [hist EXCEPT !.appended = Append(@, message),
                                   !.last_start = BLen(file),
                                   !.written = Append(@, w.written)]
    /\ UNCHANGED <<lock, builder, block_iter, mem_table, sequence, wb, reader, pc, call>>

NextTestWriter ==
    \/ \E message \in TestPayloads : TestWriter_append(message)
    \/ \E plan \in IoPlans : Reader_open(plan)
    \/ Log_read

SpecTestWriter == InitLog /\ [][NextTestWriter]_vars

\* the three appends of test_writer, in its order
TestWriterRan ==
    hist.appended = <<Rep(1, 1000), Rep(2, 97270), Rep(3, 8000)>>

\* C29 (as claimed): after appending 1000, 97270 and 8000 bytes to an empty
\* log the file is exactly 3 * 32768 bytes long and each payload starts a new
\* block.
C29_AsClaimed ==
    TestWriterRan =>
        /\ BLen(file) = 3 * BLOCK_SIZE
        /\ \A i \in 1..3 : hist.written[i][1].at % BLOCK_SIZE = 0

\* C29: after appending 1000, 97270 and 8000 bytes to an empty log the file
\* is 3 * 32768 + 8007 bytes long, three whole blocks and a part of a fourth
\* (its length divided by 32768 is 3, as test_writer asserts); the second
\* payload starts at byte 1007 of the first block, and only the third starts
\* a block, the fourth, after six zero bytes.
C29_TestWriterFile ==
    TestWriterRan =>
        /\ BLen(file) = 3 * BLOCK_SIZE + 8007
        /\ BLen(file) \div BLOCK_SIZE = 3
        /\ hist.written[1][1].at = 0
        /\ hist.written[2][1].at = 1007
        /\ Len(hist.written[2]) = 3
        /\ hist.written[3] = <<[pad |-> 6, at |-> 3 * BLOCK_SIZE, record_type |-> Full,
                                length |-> 8000, block_offset |-> 8007]>>

\* the three appends were made and the three payloads read back
C29_Witness ==
    /\ TestWriterRan
    /\ BLen(file) = 106311
    /\ Somes(hist.returned) = hist.appended

(***************************************************************************)
(* A new WriteBatch built by put and delete and iterated                   *)
(***************************************************************************)

NextIter ==
    \/ \E key \in Keys, value \in Values : WB_put(key, value)
    \/ \E key \in Keys : WB_delete(key)
    \/ \E s \in {300} : WB_set_sequence(s)
    \/ WB_iter

SpecIter == InitWB /\ [][NextIter]_vars

\* C30: on a batch built by put and delete, in any order, iter() answers
\* exactly those calls in their order, Value(key, value) for a put and
\* Deletion(key) for a delete with the bytes passed, and then None.
C30_IterRoundTrip ==
    (call.op = "iter" /\ ~hist.forged) => result = Res("Ok", hist.ops)

\* a put with a key of 128 bytes and a value of 130, then a delete, iterated
C30_Witness ==
    /\ call.op = "iter"
    /\ ~hist.forged
    /\ hist.ops = <<[kind |-> "Value", key |-> Rep(97, 128), value |-> Rep(98, 130)],
                    [kind |-> "Deletion", key |-> FromList(<<107>>), value |-> <<>>]>>
    /\ result = Res("Ok", hist.ops)

(***************************************************************************)
(* Claims about the counters of the memtable (SpecMem)                     *)
(***************************************************************************)

\* C31: after any calls of set and delete, entry_count is the number of
\* distinct keys ever passed to set or delete, which is the size of the item
\* map; a call on a key already in the map leaves it unchanged (an overwrite,
\* or a delete, which keeps the key as a tombstone), and no call decreases it.
C31_EntryCount ==
    /\ [](/\ mem_table.entry_count = Cardinality(hist.touched)
          /\ mem_table.entry_count = Cardinality(DOMAIN mem_table.items)
          /\ hist.touched = DOMAIN mem_table.items)
    /\ [][/\ mem_table'.entry_count >= mem_table.entry_count
          /\ (hist'.ops # hist.ops /\ call'.key \in DOMAIN mem_table.items) =>
                mem_table'.entry_count = mem_table.entry_count
          /\ (hist'.ops # hist.ops /\ call'.key \notin DOMAIN mem_table.items) =>
                mem_table'.entry_count = mem_table.entry_count + 1]_vars

\* a key set, set again and deleted: one entry, a tombstone
C31_Witness ==
    /\ hist.ops = 3
    /\ call.op = "delete"
    /\ hist.touched = {FromList(<<97, 98>>)}
    /\ mem_table.entry_count = 1
    /\ mem_table.items[FromList(<<97, 98>>)] = Deletion

RECURSIVE SumBytes(_, _)
\* the bytes of the entries of keys S: key length plus value length, a
\* tombstone counting for its key only
SumBytes(items, S) ==
    IF S = {} THEN 0
    ELSE LET k == CHOOSE x \in S : TRUE
         IN  BLen(k) + (IF items[k].tag = "Value" THEN BLen(items[k].v) ELSE 0)
               + SumBytes(items, S \ {k})

\* C36: after any calls of set and delete, total_bytes is the sum over the
\* entries of the memtable of key length plus value length (0 for a
\* tombstone); no value stored is longer than total_bytes, so that the
\* subtraction of set and delete never goes below zero.
C36_TotalBytes ==
    /\ mem_table.total_bytes = SumBytes(mem_table.items, DOMAIN mem_table.items)
    /\ mem_table.total_bytes >= 0
    /\ \A k \in DOMAIN mem_table.items :
          mem_table.items[k].tag = "Value" =>
              BLen(mem_table.items[k].v) <= mem_table.total_bytes

\* a value of two bytes under one key and a tombstone under another, after
\* three calls that ended with the delete: total_bytes is the two keys'
\* lengths and the value's
C36_Witness ==
    /\ hist.ops = 3
    /\ call.op = "delete"
    /\ call.key = FromList(<<98>>)
    /\ DOMAIN mem_table.items = {FromList(<<97, 98>>), FromList(<<98>>)}
    /\ mem_table.items[FromList(<<97, 98>>)] = Value(FromList(<<118, 49>>))
    /\ mem_table.items[FromList(<<98>>)] = Deletion
    /\ mem_table.total_bytes = 5

(***************************************************************************)
(* A block built from pairs in any order and closed (BlockBuilder alone)   *)
(***************************************************************************)

\* values of the pairs: empty and of 200 bytes
BuilderValues == {<<>>, Rep(120, 200)}

\* block_builder.add(key, value), the keys in any order (as in
\* tests::test_block_builder)
Builder_add(key, value) ==
    /\ pc = "building"
    /\ Len(hist.added) < MaxEntries
    /\ builder' = BlockBuilder_add(builder, key, value)
    /\ call' = [op |-> "add"]
    /\ hist' = [hist EXCEPT !.added = Append(@, <<key, value>>),
                            !.starts = Append(@, BLen(builder.buf))]
    /\ UNCHANGED <<mem_table, sequence, wb, file, block_offset, reader, lock, block_iter, pc, result>>

NextBuilder ==
    \/ \E key \in BlockKeys, value \in BuilderValues : Builder_add(key, value)
    \/ Block_finish

SpecBuilder == InitBlock /\ [][NextBuilder]_vars

\* the varint32 at position pos of data, for values below 2^14: the value and
\* the number of its bytes
VarintAt(data, pos) ==
    IF At(data, pos) < 128 THEN <<At(data, pos), 1>>
    ELSE <<At(data, pos) - 128 + 128 * At(data, pos + 1), 2>>

\* the entry at position pos of data: shared, non_shared, value length, the
\* key bytes stored, the value, and the position after it
EntryAt(data, pos) ==
    LET s  == VarintAt(data, pos)
        n  == VarintAt(data, pos + s[2])
        v  == VarintAt(data, pos + s[2] + n[2])
        ko == pos + s[2] + n[2] + v[2]
    IN  [shared |-> s[1], non_shared |-> n[1], value_length |-> v[1],
         key_delta |-> Slice(data, ko, ko + n[1]),
         value |-> Slice(data, ko + n[1], ko + n[1] + v[1]),
         end |-> ko + n[1] + v[1]]

\* the length of the longest common prefix of two byte strings
CommonPrefix(x, y) ==
    LET a == Bytes(x)
        b == Bytes(y)
        m == IF Len(a) < Len(b) THEN Len(a) ELSE Len(b)
    IN  Cardinality({k \in 1..m : \A j \in 1..k : a[j] = b[j]})

\* the u32 stored little-endian at position pos of data, for values below 2^24
U32LeAt(data, pos) ==
    IF At(data, pos + 3) = 0
    THEN At(data, pos) + 256 * At(data, pos + 1) + 65536 * At(data, pos + 2)
    ELSE -1

\* the positions 1, 1 + n, 1 + 2n, ... among the first count entries
RestartEntries(count, n) ==
    {i \in 1..count : (i - 1) % n = 0}

\* C32: in the buffer of a BlockBuilder with restart interval n >= 1, after
\* any calls of add, the entries at positions 0, n, 2n, ... are stored with
\* shared = 0 and their full key, and their offsets in the buffer are the
\* restart points recorded (after the first, 0); every other entry is stored
\* with shared equal to the length of the longest common prefix of its key and
\* the key added before it, followed by the rest of its key; finish returns
\* the buffer, the restart offsets as little-endian u32 and their count.
C32_RestartPoints ==
    LET count == Len(hist.added)
        n     == hist.interval
        data  == IF pc = "building" THEN builder.buf ELSE result.value
        pts   == RestartEntries(count, n)
        num   == IF count = 0 THEN 1 ELSE Cardinality(pts)
        size  == IF count = 0 THEN 0 ELSE EntryAt(data, hist.starts[count]).end
    IN  /\ hist.interval >= 1
        /\ \A i \in 1..count :
              LET e    == EntryAt(data, hist.starts[i])
                  key  == hist.added[i][1]
                  want == IF i \in pts THEN 0
                          ELSE CommonPrefix(key, hist.added[i - 1][1])
              IN  /\ e.shared = want
                  /\ e.non_shared = BLen(key) - want
                  /\ e.key_delta = Drop(key, want)
                  /\ e.value = hist.added[i][2]
                  /\ hist.starts[i] = IF i = 1 THEN 0
                                      ELSE EntryAt(data, hist.starts[i - 1]).end
        /\ pc = "building" =>
              /\ BLen(builder.buf) = size
              /\ Len(builder.restarts) = num
              /\ builder.restarts[1] = 0
              /\ \A i \in pts : builder.restarts[((i - 1) \div n) + 1] = hist.starts[i]
        /\ pc = "finished" =>
              /\ BLen(data) = size + 4 * num + 4
              /\ U32LeAt(data, size) = 0
              /\ \A i \in pts : U32LeAt(data, size + 4 * ((i - 1) \div n)) = hist.starts[i]
              /\ U32LeAt(data, size + 4 * num) = num

\* the block of tests::test_block_builder in shape: three pairs at restart
\* interval 2, the second key sharing a byte with the first, the third key
\* (smaller than the second) at a restart point; finished
C32_Witness ==
    /\ pc = "finished"
    /\ hist.interval = 2
    /\ Len(hist.added) = 3
    /\ hist.added[1][1] = FromList(<<97>>)
    /\ hist.added[2][1] = FromList(<<97, 98>>)
    /\ hist.added[3][1] = <<>>
    /\ EntryAt(result.value, hist.starts[2]).shared = 1
    /\ U32LeAt(result.value, BLen(result.value) - 4) = 2
    /\ U32LeAt(result.value, BLen(result.value) - 8) = hist.starts[3]
    /\ hist.starts[3] > 0

(***************************************************************************)
(* read_block (src/src/table.rs) on a file of blocks, each followed by its *)
(* trailer: the compression byte and four bytes of checksum                *)
(***************************************************************************)

\* type and crc32 size
BLOCK_TRAILER_SIZE == 5

\* read_block(file, handle, scratch): scratch is resized to the block and its
\* trailer and filled by read_exact_at, which fails when the file ends before
\* that; the checksum is not looked at; the byte after the block decides:
\* 0 the block's bytes, 1 todo!() (a panic), any other Corruption
read_block(f, handle) ==
    LET scratch == Slice(f, handle.offset, handle.offset + handle.size + BLOCK_TRAILER_SIZE)
    IN  IF handle.offset + handle.size + BLOCK_TRAILER_SIZE > BLen(f)
        THEN Res("IOError", <<>>)
        ELSE CASE At(scratch, handle.size) = 0 -> Res("Ok", Take(scratch, handle.size))
               [] At(scratch, handle.size) = 1 -> Res("Panic", <<>>)
               [] OTHER -> Res("Corruption", <<>>)

\* Blocks in one file.
MaxBlocks == 2

\* block contents: empty, two bytes, 300 bytes
BlockContents == {<<>>, FromList(<<97, 98>>), Rep(7, 300)}

\* compression bytes: none, Snappy, and two codes that are not assigned
CompressionCodes == {0, 1, 2, 255}

\* sizes of a handle relative to the block it names: the block's, one more
HandleGrowth == {0, 1}

InitRead ==
    /\ mem_table = MemTable_default
    /\ sequence = 0
    /\ wb = WriteBatch_new
    /\ file = <<>>
    /\ block_offset = 0
    /\ reader = Reader_new
    /\ lock = RwLock_new
    /\ builder = NoBlock
    /\ block_iter = NoBlock
    /\ pc = "idle"
    /\ call = [op |-> "none", offset |-> 0, size |-> 0]
    /\ result = Res("Ok", <<>>)
    /\ hist = [blocks |-> <<>>]

\* the file gains a block and its trailer: compression byte, checksum
Read_put_block(contents, code) ==
    /\ Len(hist.blocks) < MaxBlocks
    /\ file' = Cat(Cat(Cat(file, contents), Rep(code, 1)),
                   Fixed32Bytes(crc32fast_hash(Cat(contents, Rep(code, 1)))))
    /\ hist' = [hist EXCEPT !.blocks =
                   Append(@, [offset |-> BLen(file), size |-> BLen(contents),
                              contents |-> contents, code |-> code])]
    /\ call' = [op |-> "put", offset |-> BLen(file), size |-> BLen(contents)]
    /\ UNCHANGED <<mem_table, sequence, wb, block_offset, reader, lock, builder, block_iter, pc, result>>

\* read_block(&file, &handle, &mut scratch) with the handle of the i-th
\* block, or one whose size is greater by grow
Read_block(i, grow) ==
    /\ i <= Len(hist.blocks)
    /\ LET handle == [offset |-> hist.blocks[i].offset,
                      size |-> hist.blocks[i].size + grow]
       IN  /\ result' = read_block(file, handle)
           /\ call' = [op |-> "read_block", offset |-> handle.offset, size |-> handle.size]
    /\ UNCHANGED <<mem_table, sequence, wb, file, block_offset, reader, lock, builder, block_iter, pc, hist>>

NextRead ==
    \/ \E contents \in BlockContents, code \in CompressionCodes :
          Read_put_block(contents, code)
    \/ \E i \in 1..MaxBlocks, grow \in HandleGrowth : Read_block(i, grow)

SpecRead == InitRead /\ [][NextRead]_vars

\* C33: read_block on a handle whose block and trailer lie in the file
\* answers by the byte that follows the block and never panics: the block's
\* bytes for 0, NotSupported for 1 (Snappy), Corruption for every other code.
C33_CompressionByte ==
    (call.op = "read_block" /\ call.offset + call.size + BLOCK_TRAILER_SIZE <= BLen(file)) =>
        LET code == At(file, call.offset + call.size)
        IN  /\ result.status # "Panic"
            /\ code = 0 => result = Res("Ok", Slice(file, call.offset, call.offset + call.size))
            /\ code = 1 => result.status = "NotSupported"
            /\ code \notin {0, 1} => result.status = "Corruption"

(***************************************************************************)
(* Claims about levels and truncated records (SpecEdit)                    *)
(***************************************************************************)

\* a field that the decoder reads whole and accepts: a number, the comparator
\* "abc", a deleted file at level 1, a compact pointer at level 2, a new file
\* at level 3
WellFormedField(tag, payload) ==
    \/ tag \in {2, 3, 4, 9} /\ payload \in {FromList(<<5>>), FromList(<<172, 2>>)}
    \/ tag = 1 /\ payload = FromList(<<3, 97, 98, 99>>)
    \/ tag = 6 /\ payload = FromList(<<1, 42>>)
    \/ tag = 5 /\ payload = Cat(FromList(<<2, 9, 107>>), Rep(0, 8))
    \/ tag = 7 /\ payload = Cat(FromList(<<3, 1, 1, 8>>),
                                Cat(Rep(0, 8), Cat(FromList(<<8>>), Rep(0, 8))))

\* the i-th field put is read as a field: those before it are well formed
ReadAsField(i) ==
    /\ i <= Len(hist.tags)
    /\ \A j \in 1..(i - 1) : WellFormedField(hist.tags[j], hist.payloads[j])

\* the level a payload begins with (a varint32 of one or two bytes)
LevelOf(payload) ==
    VarintAt(payload, 0)[1]

\* C34: a record with a CompactPointer, DeletedFile or NewFile field whose
\* level is 7 or more is decoded to Corruption, and every level in an edit
\* that was decoded is below 7.
C34_LevelBelowSeven ==
    call.op = "decode_from" =>
        /\ \A i \in 1..Len(hist.tags) :
              (/\ ReadAsField(i)
               /\ hist.tags[i] \in {5, 6, 7}
               /\ hist.payloads[i] # <<>>
               /\ LevelOf(hist.payloads[i]) >= NUM_LEVELS)
                  => result.status = "Corruption"
        /\ result.status = "Ok" =>
              /\ \A k \in 1..Len(result.value.compact_pointers) :
                    result.value.compact_pointers[k][1] < NUM_LEVELS
              /\ \A d \in result.value.deleted_files : d[1] < NUM_LEVELS
              /\ \A k \in 1..Len(result.value.new_files) :
                    result.value.new_files[k][1] < NUM_LEVELS

\* a deleted file at level 1, then a compact pointer at level 7: Corruption
C34_Witness ==
    /\ call.op = "decode_from"
    /\ hist.tags = <<6, 5>>
    /\ hist.payloads = <<FromList(<<1, 42>>), FromList(<<7, 42>>)>>
    /\ result.status = "Corruption"

\* C37: a record that ends inside a field - in particular right after a
\* CompactPointer, DeletedFile or NewFile tag, before the level - is decoded
\* to Corruption, without a panic.
C37_TruncatedIsCorruption ==
    (/\ call.op = "decode_from"
     /\ hist.tags # <<>>
     /\ ReadAsField(Len(hist.tags))
     /\ hist.tags[Len(hist.tags)] \in KnownTags
     /\ hist.payloads[Len(hist.tags)] = <<>>)
        => result.status = "Corruption"

(***************************************************************************)
(* Specification SpecDecode: decode_varint32 on any bytes, in a build with *)
(* overflow checks and in one without.                                     *)
(***************************************************************************)

MaxInputLen == 7

\* bytes tried: terminating bytes 1 and 127, continuation bytes 128 and 255
DecodeBytes == {1, 127, 128, 255}

\* the positions of the bits set in the low seven bits of a byte
SevenBits(x) ==
    {i \in 0..6 : (x \div Pow2(i)) % 2 = 1}

\* the positions of the bits set in a 32-bit pattern
U32_bits(v) ==
    IF v >= 0 THEN {i \in 0..30 : (v \div Pow2(i)) % 2 = 1}
    ELSE {31} \cup {i \in 0..30 : (((v + 2147483647) + 1) \div Pow2(i)) % 2 = 1}

RECURSIVE SumPow2(_)
SumPow2(S) ==
    IF S = {} THEN 0
    ELSE LET i == CHOOSE j \in S : TRUE IN Pow2(i) + SumPow2(S \ {i})

\* the 32-bit pattern with the bits of S set
U32_of_bits(S) ==
    IF 31 \in S THEN (SumPow2(S \ {31}) - 2147483647) - 1 ELSE SumPow2(S)

\* ((byte & 0x7f) as u32) << shift without overflow checks: the shift amount
\* is taken modulo 32 and the bits shifted past bit 31 are lost
U32_shl_wrapping(x, shift) ==
    U32_of_bits({i + (shift % 32) : i \in SevenBits(x)} \cap (0..31))

\* value |= bits
U32_or(value, bits) ==
    U32_of_bits(U32_bits(value) \cup U32_bits(bits))

RECURSIVE decode_varint32_wrapping_loop(_, _, _, _)
\* the loop of decode_varint32 without overflow checks: buf[offset] panics
\* past the end of buf
decode_varint32_wrapping_loop(buf, value, shift, offset) ==
    IF offset >= BLen(buf)
    THEN [panic |-> TRUE, value |-> 0, offset |-> offset]
    ELSE LET byte == At(buf, offset)
             v    == U32_or(value, U32_shl_wrapping(byte % 128, shift))
         IN  IF byte >= 128
             THEN decode_varint32_wrapping_loop(buf, v, shift + 7, offset + 1)
             ELSE [panic |-> FALSE, value |-> v, offset |-> offset + 1]

decode_varint32_wrapping(buf) ==
    decode_varint32_wrapping_loop(buf, 0, 0, 0)

InitDecode ==
    /\ mem_table = MemTable_default
    /\ sequence = 0
    /\ wb = WriteBatch_new
    /\ file = <<>>
    /\ block_offset = 0
    /\ reader = Reader_new
    /\ lock = RwLock_new
    /\ builder = NoBlock
    /\ block_iter = NoBlock
    /\ pc = "idle"
    /\ call = [op |-> "none", overflow_checks |-> TRUE]
    /\ result = Res("Ok", <<>>)
    /\ hist = [input |-> <<>>]

\* one more byte of input
Decode_push(byte) ==
    /\ pc = "idle"
    /\ Len(hist.input) < MaxInputLen
    /\ file' = Cat(file, Rep(byte, 1))
    /\ hist' = [input |-> Append(hist.input, byte)]
    /\ UNCHANGED <<mem_table, sequence, wb, block_offset, reader, lock, builder, block_iter,
                   pc, call, result>>

\* decode_varint32(&input)
Decode_call(overflow_checks) ==
    /\ pc = "idle"
    /\ LET d == IF overflow_checks THEN decode_varint32(file)
                ELSE decode_varint32_wrapping(file)
       IN  result' = IF d.panic THEN Res("Panic", <<>>) ELSE Res("Ok", <<d.value, d.offset>>)
    /\ call' = [op |-> "decode_varint32", overflow_checks |-> overflow_checks]
    /\ pc' = "decoded"
    /\ UNCHANGED <<mem_table, sequence, wb, file, block_offset, reader, lock, builder,
                   block_iter, hist>>

NextDecode ==
    \/ \E byte \in DecodeBytes : Decode_push(byte)
    \/ \E overflow_checks \in BOOLEAN : Decode_call(overflow_checks)

SpecDecode == InitDecode /\ [][NextDecode]_vars

\* the place (from 1) of the first byte of the input with a clear MSB, 0 if
\* there is none
FirstTerminator ==
    IF \E i \in 1..Len(hist.input) : hist.input[i] < 128
    THEN CHOOSE i \in 1..Len(hist.input) :
            /\ hist.input[i] < 128
            /\ \A j \in 1..(i - 1) : hist.input[j] >= 128
    ELSE 0

\* C35: decode_varint32 stops at the first byte with a clear MSB; on an input
\* that ends before such a byte, or that has more than five continuation
\* bytes in front of it, it fails with a corruption error - no panic, no read
\* past the input, no value.
C35_DecodeFailsCleanly ==
    call.op = "decode_varint32" =>
        /\ FirstTerminator \in 1..5 =>
              /\ result.status = "Ok"
              /\ result.value[2] = FirstTerminator
        /\ (FirstTerminator = 0 \/ FirstTerminator > 6) =>
              result.status = "Corruption"

(***************************************************************************)
(* One op per log record (Spec)                                            *)
(***************************************************************************)

\* the batch rep counts one op and holds exactly the op that leaves item
\* under key
OneOp(rep, key, item) ==
    /\ WriteBatch_get_count(rep) = 1
    /\ WriteBatch_iter(rep)
         = [status |-> "Ok",
            items |-> <<[kind |-> item.tag, key |-> key, value |-> item.v]>>]

\* the batch rep counts one op and holds one op
SingleOp(rep) ==
    /\ WriteBatch_get_count(rep) = 1
    /\ WriteBatch_iter(rep).status = "Ok"
    /\ Len(WriteBatch_iter(rep).items) = 1

C38_State ==
    /\ InWrite => OneOp(wb, call.key, call.item)
    /\ \A i \in 1..Len(hist.appended) : SingleOp(hist.appended[i])
    /\ ~hist.torn =>
          \A i \in 1..Len(LogRecords) : SingleOp(LogRecords[i])

\* C38: the record a call of put or delete appends to the log holds exactly
\* the one op of that call and counts 1, also after an earlier call failed at
\* append or sync, and the call applies that op alone to the memtable.
C38_OneOpPerRecord ==
    /\ [](C38_State)
    /\ [][/\ (pc = "append" /\ Len(hist'.appended) > Len(hist.appended))
                => /\ hist'.appended[Len(hist'.appended)] = wb
                   /\ OneOp(wb, call.key, call.item)
          /\ (pc = "apply" /\ call'.op # "open")
                => mem_table'.items = MapPut(mem_table.items, call.key, call.item)]_vars

\* a call on one key failed at sync after its record was appended; the next
\* call, on the other key, returned Ok and the memtable holds its key alone
C38_Witness ==
    /\ pc = "idle"
    /\ call.op \in {"put", "delete"}
    /\ result.status = "Ok"
    /\ hist.calls = 2
    /\ hist.faults = 1
    /\ ~hist.torn
    /\ Len(hist.appended) = 2
    /\ ~BatchHas(hist.appended[1], call.key, call.item)
    /\ WriteBatchIter_next(hist.appended[1], WRITE_BATCH_HEADER_SIZE).key # call.key
    /\ OneOp(hist.appended[2], call.key, call.item)
    /\ DOMAIN mem_table.items = {call.key}

====
